---- MODULE Spec2Model ----
(***************************************************************************)
(* Model of the AI chat streaming engine of AiDocPlus                      *)
(* (apps/desktop/src-tauri/src/commands/ai.rs and src/tools.rs):           *)
(* the stream session registry STREAM_STATES, the command chat_stream with *)
(* its function-calling loop, and the three SSE decoders.                  *)
(*                                                                         *)
(* Texts are TLA+ strings, concatenated with \o as push_str does.          *)
(* A byte buffer is a sequence of symbols; a symbol stands for a run of    *)
(* bytes and carries its length in bytes in the field n.                   *)
(***************************************************************************)
EXTENDS Integers, Sequences, FiniteSets, TLC

(***************************************************************************)
(* Bounds of the model.                                                    *)
(***************************************************************************)
\* number of chat_stream invocations of one run
NumCalls == 3
\* number of chunks the server sends on one response stream
MaxChunks == 2

(***************************************************************************)
(* Program constants.                                                      *)
(***************************************************************************)
MAX_BUFFER_SIZE == 10 * 1024 * 1024

max_rounds == 5

Calls == 1..NumCalls

\* the value of an Option<String> that is None, and of a JSON field that is
\* missing or not a string
Null == "<null>"

VARIABLES
    states,   \* STREAM_STATES: request id -> cancel flag
    call,     \* per invocation of chat_stream: its arguments, locals and position
    last_op,  \* history: the command of the last step
    fncall    \* a call of one of the pure functions: its arguments and its value

vars == <<states, call, last_op, fncall>>

(***************************************************************************)
(* The stream session registry.                                            *)
(***************************************************************************)
\* RegisterStream written with entry(id).or_insert: the flag of an entry that
\* exists is kept
RegisterStream_KeepFlag(st, id) ==
    [k \in DOMAIN st \cup {id} |-> IF k \in DOMAIN st THEN st[k] ELSE FALSE]

\* states.insert(req_id, AtomicBool::new(false))
RegisterStream(st, id) ==
    [k \in DOMAIN st \cup {id} |-> IF k = id THEN FALSE ELSE st[k]]

\* StopOne written with entry(id).or_insert: an unknown id gets an entry
StopOne_Insert(st, id) ==
    [k \in DOMAIN st \cup {id} |-> IF k = id THEN TRUE ELSE st[k]]

\* stop_ai_stream(Some(id)): store(true) on the entry of id, if there is one
StopOne(st, id) ==
    IF id \in DOMAIN st THEN [st EXCEPT ![id] = TRUE] ELSE st

\* StopAll that stops after the first entry it visits
StopAll_FirstOnly(st) ==
    IF DOMAIN st = {} THEN st
    ELSE LET k0 == CHOOSE k \in DOMAIN st : TRUE
         IN  [st EXCEPT ![k0] = TRUE]

\* stop_ai_stream(None): store(true) on every entry
StopAll(st) ==
    [k \in DOMAIN st |-> TRUE]

\* cleanup_stream: states.remove(request_id)
cleanup_stream(st, id) ==
    [k \in DOMAIN st \ {id} |-> st[k]]

\* is_stream_cancelled: the flag of the entry, false when there is none
is_stream_cancelled(st, id) ==
    IF id \in DOMAIN st THEN st[id] ELSE FALSE

(***************************************************************************)
(* Results of chat_stream: Ok(text) or Err(AppError::AIError(..)).         *)
(***************************************************************************)
NoResult == [ok |-> FALSE, text |-> "", err |-> "pending"]

Ok(text) == [ok |-> TRUE, text |-> text, err |-> ""]

Err(kind) == [ok |-> FALSE, text |-> "", err |-> kind]

(***************************************************************************)
(* Bytes of a response stream.                                             *)
(***************************************************************************)
Sym(t, r, c, n) == [t |-> t, r |-> r, c |-> c, n |-> n]

\* b'\n'
NL == Sym("nl", Null, Null, 1)

\* b'\r'
CR == Sym("cr", Null, Null, 1)

\* the bytes "data" and the bytes ": ", which together are the prefix "data: "
DataWord == Sym("data", Null, Null, 4)

ColonSpace == Sym("colon", Null, Null, 2)

\* the bytes "event: x" of an SSE event line
EventLine == Sym("event", Null, Null, 8)

\* the bytes "[DONE]"
DoneLit == Sym("done", Null, Null, 6)

\* bytes that are no JSON text
BadJson == Sym("bad", Null, Null, 5)

\* a JSON object with none of the fields the decoders read
OtherJson == Sym("json", Null, Null, 2)

\* {"choices":[{"delta":{"reasoning_content":r,"content":c}}]}; Null: field absent
ChatDelta(r, c) == Sym("chat", r, c, 40)

\* {"type":"response.output_text.delta","delta":c}
RespText(c) == Sym("resp_text", Null, c, 50)

\* {"type":"response.reasoning_summary_text.delta","delta":r}
RespReason(r) == Sym("resp_reason", r, Null, 60)

\* {"type":"content_block_delta","delta":{"type":"text_delta","text":c}}
AnthText(c) == Sym("anth_text", Null, c, 70)

\* {"type":"content_block_delta","delta":{"type":"thinking_delta","thinking":r}}
AnthThink(r) == Sym("anth_think", r, Null, 80)

\* n bytes none of which is a line feed
Blob(n) == Sym("blob", Null, Null, n)

RECURSIVE ByteLen(_)
\* Vec<u8>::len
ByteLen(bytes) ==
    IF bytes = <<>> THEN 0 ELSE Head(bytes).n + ByteLen(Tail(bytes))

\* buffer.iter().position(|&b| b == b'\n'), 0 for None
NewlinePos(bytes) ==
    IF \E i \in 1..Len(bytes) : bytes[i] = NL
    THEN CHOOSE i \in 1..Len(bytes) :
            bytes[i] = NL /\ \A j \in 1..(i - 1) : bytes[j] # NL
    ELSE 0

RECURSIVE TrimEnd(_, _)
\* str::trim_end_matches(ch)
TrimEnd(line, ch) ==
    IF line # <<>> /\ line[Len(line)] = ch
    THEN TrimEnd(SubSeq(line, 1, Len(line) - 1), ch)
    ELSE line

\* line_str.strip_prefix("data: "): <<TRUE, rest>> or <<FALSE, <<>>>>
StripDataPrefix(line) ==
    IF Len(line) >= 2 /\ line[1] = DataWord /\ line[2] = ColonSpace
    THEN <<TRUE, SubSeq(line, 3, Len(line))>>
    ELSE <<FALSE, <<>>>>

\* serde_json::from_str::<Value>(data) is Ok
IsJson(data) ==
    /\ Len(data) = 1
    /\ data[1].t \in {"json", "chat", "resp_text", "resp_reason", "anth_text", "anth_think"}

(***************************************************************************)
(* The decoders, one line at a time.  A decoder state is the record        *)
(* [full_content, in_reasoning, emitted, brk, obs]; brk says that the line *)
(* left the inner loop with break, obs that is_stream_cancelled returned   *)
(* true.                                                                   *)
(***************************************************************************)
DecState(fc, inr, em) ==
    [full_content |-> fc, in_reasoning |-> inr, emitted |-> em,
     brk |-> FALSE, obs |-> FALSE]

\* PushEmit that puts the fragment before the fragments emitted so far
PushEmit_Prepend(d, s) ==
    [d EXCEPT !.full_content = @ \o s, !.emitted = <<s>> \o @]

\* PushEmit without the window.emit
PushEmit_NoEmit(d, s) ==
    [d EXCEPT !.full_content = @ \o s]

\* full_content.push_str(s) and window.emit("ai:stream:chunk", {request_id, content: s})
PushEmit(d, s) ==
    [d EXCEPT !.full_content = @ \o s, !.emitted = Append(@, s)]

\* the closing of an open reasoning section: [DONE], and the end of the function
CloseThink(d) ==
    IF d.in_reasoning
    THEN [PushEmit(d, "</think>") EXCEPT !.in_reasoning = FALSE]
    ELSE d

\* ChatReasoning that opens a section for every reasoning delta
ChatReasoning_AlwaysOpens(d, r) ==
    IF r # Null /\ r # ""
    THEN PushEmit([PushEmit(d, "<think>") EXCEPT !.in_reasoning = TRUE], r)
    ELSE d

\* the reasoning_content of a delta
ChatReasoning(d, r) ==
    IF r # Null /\ r # ""
    THEN PushEmit(IF ~d.in_reasoning
                  THEN [PushEmit(d, "<think>") EXCEPT !.in_reasoning = TRUE]
                  ELSE d, r)
    ELSE d

\* ChatContent that does not close the reasoning section at the transition
ChatContent_NoClose(d, c) ==
    IF c # Null /\ c # ""
    THEN PushEmit(d, c)
    ELSE d

\* the content of a delta
ChatContent(d, c) ==
    IF c # Null /\ c # ""
    THEN PushEmit(CloseThink(d), c)
    ELSE d

\* ChatLine without the cancel check before a delta is handled
ChatLine_NoCancelCheck(d, line, cancelled) ==
    LET str == TrimEnd(TrimEnd(line, NL), CR)
        sp == StripDataPrefix(str)
        data == sp[2]
    IN  IF str = <<>> THEN d
        ELSE IF ~sp[1] THEN d
        ELSE IF data = <<DoneLit>> THEN CloseThink(d)
        ELSE IF ~IsJson(data) THEN d
        ELSE IF data[1].t # "chat" THEN d
        ELSE ChatContent(ChatReasoning(d, data[1].r), data[1].c)

\* ChatLine that leaves the inner loop at a payload that is no JSON
ChatLine_BadJsonBreaks(d, line, cancelled) ==
    LET str == TrimEnd(TrimEnd(line, NL), CR)
        sp == StripDataPrefix(str)
        data == sp[2]
    IN  IF str = <<>> THEN d
        ELSE IF ~sp[1] THEN d
        ELSE IF data = <<DoneLit>> THEN CloseThink(d)
        ELSE IF ~IsJson(data) THEN [d EXCEPT !.brk = TRUE]
        ELSE IF data[1].t # "chat" THEN d
        ELSE IF cancelled THEN [d EXCEPT !.brk = TRUE, !.obs = TRUE]
        ELSE ChatContent(ChatReasoning(d, data[1].r), data[1].c)

\* one line of stream_sse_chat_completions
ChatLine(d, line, cancelled) ==
    LET str == TrimEnd(TrimEnd(line, NL), CR)
        sp == StripDataPrefix(str)
        data == sp[2]
    IN  IF str = <<>> THEN d
        ELSE IF ~sp[1] THEN d
        ELSE IF data = <<DoneLit>> THEN CloseThink(d)
        ELSE IF ~IsJson(data) THEN d
        ELSE IF data[1].t # "chat" THEN d
        ELSE IF cancelled THEN [d EXCEPT !.brk = TRUE, !.obs = TRUE]
        ELSE ChatContent(ChatReasoning(d, data[1].r), data[1].c)

\* one line of stream_openai_responses
ResponsesLine(d, line, cancelled) ==
    LET str == TrimEnd(TrimEnd(line, NL), CR)
        sp == StripDataPrefix(str)
        data == sp[2]
    IN  IF str = <<>> THEN d
        ELSE IF ~sp[1] THEN d
        ELSE IF data = <<DoneLit>> THEN d
        ELSE IF ~IsJson(data) THEN d
        ELSE IF data[1].t = "resp_text"
             THEN IF data[1].c # Null /\ data[1].c # ""
                  THEN IF ~cancelled THEN PushEmit(d, data[1].c)
                       ELSE [d EXCEPT !.obs = TRUE]
                  ELSE d
        ELSE IF data[1].t = "resp_reason"
             THEN IF data[1].r # Null /\ data[1].r # ""
                  THEN IF ~cancelled THEN PushEmit(d, "<think>" \o data[1].r \o "</think>")
                       ELSE [d EXCEPT !.obs = TRUE]
                  ELSE d
        ELSE d

\* AnthropicLine that pushes a thinking_delta without the tags around it
AnthropicLine_NoWrap(d, line, cancelled) ==
    LET str == TrimEnd(TrimEnd(line, NL), CR)
        sp == StripDataPrefix(str)
        data == sp[2]
    IN  IF str = <<>> THEN d
        ELSE IF ~sp[1] THEN d
        ELSE IF ~IsJson(data) THEN d
        ELSE IF data[1].t = "anth_text"
             THEN IF data[1].c # Null /\ data[1].c # ""
                  THEN IF ~cancelled THEN PushEmit(d, data[1].c)
                       ELSE [d EXCEPT !.obs = TRUE]
                  ELSE d
        ELSE IF data[1].t = "anth_think"
             THEN IF data[1].r # Null /\ data[1].r # ""
                  THEN IF ~cancelled THEN PushEmit(d, data[1].r)
                       ELSE [d EXCEPT !.obs = TRUE]
                  ELSE d
        ELSE d

\* one line of stream_anthropic_with_search
AnthropicLine(d, line, cancelled) ==
    LET str == TrimEnd(TrimEnd(line, NL), CR)
        sp == StripDataPrefix(str)
        data == sp[2]
    IN  IF str = <<>> THEN d
        ELSE IF ~sp[1] THEN d
        ELSE IF ~IsJson(data) THEN d
        ELSE IF data[1].t = "anth_text"
             THEN IF data[1].c # Null /\ data[1].c # ""
                  THEN IF ~cancelled THEN PushEmit(d, data[1].c)
                       ELSE [d EXCEPT !.obs = TRUE]
                  ELSE d
        ELSE IF data[1].t = "anth_think"
             THEN IF data[1].r # Null /\ data[1].r # ""
                  THEN IF ~cancelled THEN PushEmit(d, "<think>" \o data[1].r \o "</think>")
                       ELSE [d EXCEPT !.obs = TRUE]
                  ELSE d
        ELSE d

\* the line handler of the decoder a call was routed to
DecodeLine(rt, d, line, cancelled) ==
    IF rt = "responses" THEN ResponsesLine(d, line, cancelled)
    ELSE IF rt = "messages" THEN AnthropicLine(d, line, cancelled)
    ELSE ChatLine(d, line, cancelled)

\* the code after the chunk loop: only the Chat Completions decoder closes
EndOfDecoder(rt, d) ==
    IF rt = "chat" THEN CloseThink(d) ELSE d

\* the size check on the chunk alone
ExceedsBuffer_ChunkOnly(buf, chunk) ==
    ByteLen(chunk) > MAX_BUFFER_SIZE

\* buffer.len() + chunk.len() > MAX_BUFFER_SIZE
ExceedsBuffer(buf, chunk) ==
    ByteLen(buf) + ByteLen(chunk) > MAX_BUFFER_SIZE

(***************************************************************************)
(* Strings of the tools.  A str is a sequence of chars; a char is named by *)
(* a string and has the width of its UTF-8 encoding.  Indices into a str   *)
(* are byte offsets, as in Rust.                                           *)
(***************************************************************************)
\* U+4E2D, a letter of three bytes
CJK == "U+4E2D"

\* U+3000 IDEOGRAPHIC SPACE, white space of three bytes
IDSP == "U+3000"

\* U+0130 LATIN CAPITAL LETTER I WITH DOT ABOVE, two bytes
IDOT == "U+0130"

\* U+0307 COMBINING DOT ABOVE, two bytes
CDOT == "U+0307"

\* char::len_utf8
Width(ch) ==
    IF ch \in {CJK, IDSP} THEN 3
    ELSE IF ch \in {IDOT, CDOT} THEN 2
    ELSE 1

\* char::is_whitespace
IsWhitespace(ch) == ch \in {" ", IDSP}

\* char::to_lowercase: a sequence of chars
LowerChar(ch) ==
    CASE ch = "A" -> <<"a">>
      [] ch = "P" -> <<"p">>
      [] ch = "B" -> <<"b">>
      [] ch = IDOT -> <<"i", CDOT>>
      [] OTHER -> <<ch>>

RECURSIVE str_len(_)
\* str::len, in bytes
str_len(s) ==
    IF s = <<>> THEN 0
    ELSE IF Len(s) = 1 THEN Width(s[1])
    ELSE str_len(SubSeq(s, 1, Len(s) \div 2))
         + str_len(SubSeq(s, Len(s) \div 2 + 1, Len(s)))

RECURSIVE to_lowercase(_)
\* str::to_lowercase
to_lowercase(s) ==
    IF s = <<>> THEN <<>>
    ELSE IF Len(s) = 1 THEN LowerChar(s[1])
    ELSE to_lowercase(SubSeq(s, 1, Len(s) \div 2))
         \o to_lowercase(SubSeq(s, Len(s) \div 2 + 1, Len(s)))

\* the byte offset of the end of the first k chars of s
ByteOffset(s, k) == str_len(SubSeq(s, 1, k))

\* str::is_char_boundary
is_char_boundary(s, i) == \E k \in 0..Len(s) : ByteOffset(s, k) = i

\* the number of chars of s before the char boundary i
CharsBefore(s, i) == CHOOSE k \in 0..Len(s) : ByteOffset(s, k) = i

\* the char positions at which needle occurs in hay
Occurrences(hay, needle) ==
    {k \in 0..(Len(hay) - Len(needle)) : SubSeq(hay, k + 1, k + Len(needle)) = needle}

\* str::contains
contains(hay, needle) == Occurrences(hay, needle) # {}

\* str::find: the byte offset of the first occurrence, -1 for None
find(hay, needle) ==
    IF Occurrences(hay, needle) = {} THEN -1
    ELSE ByteOffset(hay, CHOOSE k \in Occurrences(hay, needle) :
                            \A j \in Occurrences(hay, needle) : k <= j)

\* str::rfind(char::is_whitespace): the byte offset of the last white space
\* char, -1 for None
rfind_whitespace(s) ==
    LET ws == {k \in 1..Len(s) : IsWhitespace(s[k])}
    IN  IF ws = {} THEN -1
        ELSE ByteOffset(s, (CHOOSE k \in ws : \A j \in ws : j <= k) - 1)

\* the thread panics
Panic == [panic |-> TRUE]

IsPanic(v) == "panic" \in DOMAIN v

\* &s[a..b]: a panic unless a <= b <= s.len() and both are char boundaries
Slice(s, a, b) ==
    IF a <= b /\ b <= str_len(s) /\ is_char_boundary(s, a) /\ is_char_boundary(s, b)
    THEN [str |-> SubSeq(s, CharsBefore(s, a) + 1, CharsBefore(s, b))]
    ELSE Panic

\* s.chars().take(n).collect()
take_chars(s, n) == SubSeq(s, 1, IF Len(s) < n THEN Len(s) ELSE n)

\* a sequence of n chars ch
Rep(ch, n) == [i \in 1..n |-> ch]

(***************************************************************************)
(* The tools (tools.rs).  A JSON value is a record of its fields; a field  *)
(* that is absent or is no string is Null.  The text a tool returns is the *)
(* serde_json rendering of a value: it is kept as the value.               *)
(***************************************************************************)
Alpha == <<"a", "l", "p", "h", "a">>

AlphaProject == <<"A", "l", "p", "h", "a", " ", "P", "r", "o", "j", "e", "c", "t">>

\* a title, a content or a query that is absent or is no JSON string
NoStr == <<Null>>

\* a document of the snapshot: id is a string or Null, title and content are
\* strs or NoStr
Doc(id, title, content) == [id |-> id, title |-> title, content |-> content]

\* serde_json::from_str(arguments).unwrap_or(json!({})), then the two fields
\* the tools read with as_str(): the texts of arguments the model uses
ParseArgs(arguments) ==
    CASE arguments = "{\"query\":\"alpha\"}" -> [query |-> Alpha, document_id |-> Null]
      [] arguments = "{\"query\":\"ALPHA\"}" ->
            [query |-> <<"A", "l", "P", "h", "A">>, document_id |-> Null]
      [] arguments = "{\"query\":\"b\"}" -> [query |-> <<"b">>, document_id |-> Null]
      [] arguments = "{\"query\":\"i\"}" -> [query |-> <<"i">>, document_id |-> Null]
      [] arguments = "{\"query\":\"\"}" -> [query |-> <<>>, document_id |-> Null]
      [] arguments = "{\"query\":5}" -> [query |-> NoStr, document_id |-> Null]
      [] arguments = "{\"document_id\":\"d1\"}" -> [query |-> NoStr, document_id |-> "d1"]
      [] arguments = "{\"document_id\":\"zz\"}" -> [query |-> NoStr, document_id |-> "zz"]
      [] arguments = "{\"document_id\":\"\"}" -> [query |-> NoStr, document_id |-> ""]
      [] OTHER -> [query |-> NoStr, document_id |-> Null]

\* project_documents of a caller: three documents, one of which holds
\* "Alpha Project"
CallerDocuments ==
    << Doc("d1", <<"P", "l", "a", "n">>, <<"t", "h", "e", " ">> \o AlphaProject),
       Doc("d2", <<"N", "o", "t", "e", "s">>, <<"b", "e", "t", "a">>),
       Doc("d3", <<"T", "o", "d", "o">>, <<>>) >>

\* as_str().unwrap_or("") of a field of a document
StrOrEmpty(v) == IF v = NoStr THEN <<>> ELSE v

IdOrEmpty(v) == IF v = Null THEN "" ELSE v

\* execute_search_documents: the snippet of a matching document
Snippet(content, query, query_lower) ==
    LET pos == find(to_lowercase(content), query_lower)
    IN  IF pos = -1 THEN [str |-> take_chars(content, 100)]
        ELSE LET start0 == IF pos > 50 THEN pos - 50 ELSE 0
                 e0 == pos + str_len(query) + 50
                 end == IF e0 < str_len(content) THEN e0 ELSE str_len(content)
                 before == Slice(content, 0, start0)
             IN  IF IsPanic(before) THEN Panic
                 ELSE LET ws == rfind_whitespace(before.str)
                          start == IF ws # -1 THEN ws + 1 ELSE start0
                      IN  Slice(content, start, end)

RECURSIVE SearchLoop(_, _, _, _)
\* execute_search_documents: the loop over the documents; results.list is
\* the vector results
SearchLoop(documents, query, query_lower, results) ==
    IF documents = <<>> THEN results
    ELSE LET doc == Head(documents)
             title == StrOrEmpty(doc.title)
             content == StrOrEmpty(doc.content)
         IN  IF contains(to_lowercase(title), query_lower)
                \/ contains(to_lowercase(content), query_lower)
             THEN LET snippet == Snippet(content, query, query_lower)
                  IN  IF IsPanic(snippet) THEN Panic
                      ELSE LET rs == Append(results.list,
                                        [id |-> IdOrEmpty(doc.id), title |-> title,
                                         snippet |-> snippet.str])
                           IN  IF Len(rs) >= 10 THEN [list |-> rs]
                               ELSE SearchLoop(Tail(documents), query, query_lower,
                                               [list |-> rs])
             ELSE SearchLoop(Tail(documents), query, query_lower, results)

\* tools::execute_search_documents
execute_search_documents(arguments, documents) ==
    LET query == StrOrEmpty(ParseArgs(arguments).query)
    IN  IF query = <<>> THEN [results |-> <<>>, message |-> "empty query"]
        ELSE LET results == SearchLoop(documents, query, to_lowercase(query),
                                       [list |-> <<>>])
             IN  IF IsPanic(results) THEN Panic
                 ELSE [results |-> results.list, total |-> Len(results.list)]

\* tools::execute_read_document
execute_read_document(arguments, documents) ==
    LET doc_id == IdOrEmpty(ParseArgs(arguments).document_id)
        hits == {i \in 1..Len(documents) : IdOrEmpty(documents[i].id) = doc_id}
    IN  IF doc_id = "" THEN [error |-> "empty document id"]
        ELSE IF hits = {} THEN [error |-> "document not found", doc_id |-> doc_id]
        ELSE LET doc == documents[CHOOSE i \in hits : \A j \in hits : i <= j]
             IN  [id |-> doc.id, title |-> StrOrEmpty(doc.title),
                  content |-> StrOrEmpty(doc.content),
                  char_count |-> str_len(StrOrEmpty(doc.content))]

RECURSIVE TotalChars(_)
\* execute_get_document_stats: total_chars
TotalChars(documents) ==
    IF documents = <<>> THEN 0
    ELSE (IF Head(documents).content = NoStr THEN 0 ELSE str_len(Head(documents).content))
         + TotalChars(Tail(documents))

RECURSIVE DocList(_)
\* execute_get_document_stats: doc_list
DocList(documents) ==
    IF documents = <<>> THEN <<>>
    ELSE LET doc == Head(documents)
         IN  (IF doc.id = Null \/ doc.title = NoStr THEN <<>>
              ELSE << [id |-> doc.id, title |-> doc.title,
                       char_count |-> str_len(StrOrEmpty(doc.content))] >>)
             \o DocList(Tail(documents))

\* tools::execute_get_document_stats
execute_get_document_stats(documents) ==
    [total_documents |-> Len(documents), total_characters |-> TotalChars(documents),
     documents |-> DocList(documents)]

(***************************************************************************)
(* Messages, tool calls and HTTP requests.                                 *)
(***************************************************************************)
\* a message of the transcript, as the JSON value the code builds or clones
Msg(role, content, tool_calls, tool_call_id) ==
    [role |-> role, content |-> content, tool_calls |-> tool_calls,
     tool_call_id |-> tool_call_id]

\* json!({ "role": m.role, "content": m.content })
PlainMsg(role, content) == Msg(role, content, <<>>, Null)

\* an element of message.tool_calls as the model sent it; a field is Null
\* when it is missing or is no string
CallVal(id, name, arguments) ==
    [id |-> id, name |-> name, arguments |-> arguments]

\* serde_json::from_value::<tools::ToolCall>(call_val) is Ok: id, function.name
\* and function.arguments are strings
ParsesAsToolCall(cv) ==
    cv.id # Null /\ cv.name # Null /\ cv.arguments # Null

\* the content execute_tool computes, by tool name
ToolContent(name, arguments, documents) ==
    IF name = "search_documents" THEN execute_search_documents(arguments, documents)
    ELSE IF name = "read_document" THEN execute_read_document(arguments, documents)
    ELSE IF name = "get_document_stats" THEN execute_get_document_stats(documents)
    ELSE [error |-> "unknown tool", name |-> name]

\* tools::execute_tool: a ToolResult, or the panic of the tool it ran
execute_tool(tool_call, project_documents) ==
    LET result_content == ToolContent(tool_call.name, tool_call.arguments,
                                      project_documents)
    IN  IF IsPanic(result_content) THEN Panic
        ELSE [tool_call_id |-> tool_call.id, role |-> "tool",
              content |-> result_content]

RECURSIVE ExecuteCalls_Break(_, _, _)
\* ExecuteCalls that leaves the loop at the first value that does not parse
ExecuteCalls_Break(messages, calls, docs) ==
    IF calls = <<>> THEN [messages |-> messages]
    ELSE IF ~ParsesAsToolCall(Head(calls)) THEN [messages |-> messages]
    ELSE LET r == execute_tool(Head(calls), docs)
         IN  IF IsPanic(r) THEN Panic
             ELSE ExecuteCalls_Break(Append(messages,
                                            Msg("tool", r.content, <<>>, r.tool_call_id)),
                                     Tail(calls), docs)

RECURSIVE ExecuteCalls(_, _, _)
\* the loop over calls: a value that does not parse is skipped with continue,
\* every other one is executed and its result pushed as a tool message; a
\* panic of a tool unwinds the loop
ExecuteCalls(messages, calls, docs) ==
    IF calls = <<>> THEN [messages |-> messages]
    ELSE IF ~ParsesAsToolCall(Head(calls)) THEN ExecuteCalls(messages, Tail(calls), docs)
    ELSE LET r == execute_tool(Head(calls), docs)
         IN  IF IsPanic(r) THEN Panic
             ELSE ExecuteCalls(Append(messages,
                                      Msg("tool", r.content, <<>>, r.tool_call_id)),
                               Tail(calls), docs)

\* the text of the notice emitted before the tools run
ToolNotice == "\n\n> calling tools...\n\n"

\* an HTTP request: where it is posted, and the fields of its body
Request(endpoint, stream, tools, messages, system) ==
    [endpoint |-> endpoint, stream |-> stream, tools |-> tools,
     messages |-> messages, system |-> system]

\* the request of one tool round: stream false, tools attached
ToolRequest(messages) ==
    Request("chat/completions", FALSE, TRUE, messages, Null)

\* the final request of the default path: stream true
FinalRequest(messages) ==
    Request("chat/completions", TRUE, FALSE, messages, Null)

\* the route chat_stream takes
Route(provider, web_search) ==
    IF provider = "openai" /\ web_search THEN "responses"
    ELSE IF provider = "anthropic" /\ web_search THEN "messages"
    ELSE "chat"

RECURSIVE SystemContent(_, _)
\* stream_anthropic_with_search: system_content after the loop over messages
SystemContent(messages, acc) ==
    IF messages = <<>> THEN acc
    ELSE SystemContent(Tail(messages),
                       IF Head(messages).role = "system" THEN Head(messages).content
                       ELSE acc)

\* stream_anthropic_with_search: api_messages
ApiMessages(messages) ==
    SelectSeq(messages, LAMBDA m : m.role # "system")

\* the request of stream_anthropic_with_search
AnthropicRequest(messages) ==
    Request("messages", TRUE, TRUE, ApiMessages(messages),
            IF SystemContent(messages, "") # "" THEN SystemContent(messages, "")
            ELSE Null)

\* the request of stream_openai_responses
ResponsesRequest(messages) ==
    Request("responses", TRUE, TRUE, messages, Null)

(***************************************************************************)
(* The state of one invocation of chat_stream.                             *)
(***************************************************************************)
\* wire (history): the chunks stream.next() has yielded; responses (history):
\* the responses of the tool rounds; cancel_seen (history): full_content when
\* is_stream_cancelled first returned true, Null before
IdleCall ==
    [pc |-> "idle", req_id |-> Null, provider |-> Null, web_search |-> FALSE,
     use_tools |-> FALSE, round |-> 0, current_messages |-> <<>>,
     requests |-> <<>>, buffer |-> <<>>, full_content |-> "",
     in_reasoning |-> FALSE, emitted |-> <<>>, result |-> NoResult,
     wire |-> <<>>, responses |-> <<>>, cancel_seen |-> Null]

InFlight(c) == call[c].pc \notin {"idle", "done"}

CallOp == [op |-> "call", id |-> Null]

StopOp(rid) == [op |-> "stop", id |-> rid]

\* the drop of _guard
StreamGuardDrop(st, id) == cleanup_stream(st, id)

\* Return with cleanup_stream called by hand before the final Ok only, so that
\* the early returns of the errors leave the entry behind
Return_CleanupOnOkOnly(c, cl, res) ==
    /\ call' = [call EXCEPT ![c] = [cl EXCEPT !.pc = "done", !.result = res]]
    /\ states' = IF res.ok THEN cleanup_stream(states, cl.req_id) ELSE states
    /\ last_op' = [op |-> "call", id |-> Null]
    /\ fncall' = fncall

\* chat_stream returns res: the guard is dropped
Return(c, cl, res) ==
    /\ call' = [call EXCEPT ![c] = [cl EXCEPT !.pc = "done", !.result = res]]
    /\ states' = StreamGuardDrop(states, cl.req_id)
    /\ last_op' = CallOp
    /\ fncall' = fncall

\* chat_stream goes on at position p
Goto(c, cl, p) ==
    /\ call' = [call EXCEPT ![c] = [cl EXCEPT !.pc = p]]
    /\ states' = states
    /\ last_op' = CallOp
    /\ fncall' = fncall

\* a request is sent: it is awaited at position "final_wait" or "tool_wait"
Send(cl, req) == [cl EXCEPT !.requests = Append(@, req)]

\* is_stream_cancelled returned true: remember what had been accumulated
Seen(cl) ==
    IF cl.cancel_seen = Null THEN [cl EXCEPT !.cancel_seen = cl.full_content] ELSE cl

(***************************************************************************)
(* The commands.                                                           *)
(***************************************************************************)
\* stop_ai_stream(request_id); rid = Null is request_id = None
stop_ai_stream(rid) ==
    /\ states' = IF rid = Null THEN StopAll(states) ELSE StopOne(states, rid)
    /\ call' = call
    /\ last_op' = StopOp(rid)
    /\ fncall' = fncall

\* chat_stream up to its first await: the registration, the guard, the route
\* and, without tools, the request of the stream
ChatStream(c, id, provider, web_search, tools, messages) ==
    /\ call[c].pc = "idle"
    /\ states' = RegisterStream(states, id)
    /\ last_op' = CallOp
    /\ fncall' = fncall
    /\ LET cl == [call[c] EXCEPT !.req_id = id, !.provider = provider,
                                 !.web_search = web_search, !.use_tools = tools,
                                 !.current_messages = messages]
           rt == Route(provider, web_search)
       IN  call' = [call EXCEPT ![c] =
              IF rt = "responses"
                 THEN [Send(cl, ResponsesRequest(messages)) EXCEPT !.pc = "final_wait"]
              ELSE IF rt = "messages"
                 THEN [Send(cl, AnthropicRequest(messages)) EXCEPT !.pc = "final_wait"]
              ELSE IF tools
                 THEN [cl EXCEPT !.pc = "loop"]
              ELSE [Send(cl, FinalRequest(messages)) EXCEPT !.pc = "final_wait"]]

\* the top of a tool round: the cancel check, then the request of the round;
\* on break the final request is sent
ToolRound(c) ==
    LET cl == call[c]
    IN  /\ cl.pc = "loop"
        /\ IF is_stream_cancelled(states, cl.req_id)
           THEN Goto(c, Send(Seen(cl), FinalRequest(cl.current_messages)), "final_wait")
           ELSE Goto(c, Send(cl, ToolRequest(cl.current_messages)), "tool_wait")

\* NextRound with a range of max_rounds + 1 rounds
NextRound_OneMore(c, cl) ==
    LET nx == [cl EXCEPT !.round = @ + 1]
    IN  IF nx.round <= max_rounds
        THEN Goto(c, nx, "loop")
        ELSE Goto(c, Send(nx, FinalRequest(nx.current_messages)), "final_wait")

\* the end of a tool round that went through: the next round, or after
\* max_rounds rounds the final request
NextRound(c, cl) ==
    LET nx == [cl EXCEPT !.round = @ + 1]
    IN  IF nx.round < max_rounds
        THEN Goto(c, nx, "loop")
        ELSE Goto(c, Send(nx, FinalRequest(nx.current_messages)), "final_wait")

\* ToolResponse without the break on a finish_reason other than tool_calls: the
\* loop goes on to its next round
ToolResponse_NoBreak(c, resp) ==
    LET cl == [call[c] EXCEPT !.responses = Append(@, resp)]
    IN  /\ cl.pc = "tool_wait"
        /\ IF resp.kind = "conn_fail" THEN Return(c, cl, Err("Tool call failed"))
           ELSE IF resp.kind = "http_error" THEN Return(c, cl, Err("Tool call error"))
           ELSE IF resp.kind = "bad_json"
                THEN Return(c, cl, Err("Parse tool response failed"))
           ELSE IF resp.finish_reason # "tool_calls"
                THEN NextRound(c, cl)
           ELSE IF ~resp.has_calls
                THEN Goto(c, Send(cl, FinalRequest(cl.current_messages)), "final_wait")
           ELSE \E ran \in {ExecuteCalls(Append(cl.current_messages,
                                                Msg("assistant", Null, resp.calls, Null)),
                                         resp.calls, CallerDocuments)} :
                   LET told == [cl EXCEPT !.emitted = Append(@, ToolNotice)]
                   IN  IF IsPanic(ran) THEN Return(c, told, Err("panicked"))
                       ELSE NextRound(c, [told EXCEPT !.current_messages = ran.messages])

\* ToolResponse with a request that failed to connect sent again: the call goes
\* back to the top of the round
ToolResponse_Retry(c, resp) ==
    LET cl == [call[c] EXCEPT !.responses = Append(@, resp)]
    IN  /\ cl.pc = "tool_wait"
        /\ IF resp.kind = "conn_fail" THEN Goto(c, cl, "loop")
           ELSE IF resp.kind = "http_error" THEN Return(c, cl, Err("Tool call error"))
           ELSE IF resp.kind = "bad_json"
                THEN Return(c, cl, Err("Parse tool response failed"))
           ELSE IF resp.finish_reason # "tool_calls"
                THEN Goto(c, Send(cl, FinalRequest(cl.current_messages)), "final_wait")
           ELSE IF ~resp.has_calls
                THEN Goto(c, Send(cl, FinalRequest(cl.current_messages)), "final_wait")
           ELSE \E ran \in {ExecuteCalls(Append(cl.current_messages,
                                                Msg("assistant", Null, resp.calls, Null)),
                                         resp.calls, CallerDocuments)} :
                   LET told == [cl EXCEPT !.emitted = Append(@, ToolNotice)]
                   IN  IF IsPanic(ran) THEN Return(c, told, Err("panicked"))
                       ELSE NextRound(c, [told EXCEPT !.current_messages = ran.messages])

\* the response of a tool round arrives.  resp.kind is "conn_fail", "http_error",
\* "bad_json" or "json"; a JSON response has finish_reason (Null when there is
\* no choice or no finish_reason), has_calls (message.tool_calls is an array)
\* and calls
ToolResponse(c, resp) ==
    LET cl == [call[c] EXCEPT !.responses = Append(@, resp)]
    IN  /\ cl.pc = "tool_wait"
        /\ IF resp.kind = "conn_fail" THEN Return(c, cl, Err("Tool call failed"))
           ELSE IF resp.kind = "http_error" THEN Return(c, cl, Err("Tool call error"))
           ELSE IF resp.kind = "bad_json"
                THEN Return(c, cl, Err("Parse tool response failed"))
           ELSE IF resp.finish_reason # "tool_calls"
                THEN Goto(c, Send(cl, FinalRequest(cl.current_messages)), "final_wait")
           ELSE IF ~resp.has_calls
                THEN Goto(c, Send(cl, FinalRequest(cl.current_messages)), "final_wait")
           ELSE \E ran \in {ExecuteCalls(Append(cl.current_messages,
                                                Msg("assistant", Null, resp.calls, Null)),
                                         resp.calls, CallerDocuments)} :
                   LET told == [cl EXCEPT !.emitted = Append(@, ToolNotice)]
                   IN  IF IsPanic(ran) THEN Return(c, told, Err("panicked"))
                       ELSE NextRound(c, [told EXCEPT !.current_messages = ran.messages])

\* the response head of the streaming request arrives
FinalResponse(c, outcome) ==
    LET cl == call[c]
    IN  /\ cl.pc = "final_wait"
        /\ IF outcome = "conn_fail" THEN Return(c, cl, Err("Stream connection failed"))
           ELSE IF outcome = "http_error" THEN Return(c, cl, Err("Stream failed"))
           ELSE Goto(c, cl, "recv")

\* the decoder state of a call, and a call with a decoder state put back
DecOf(cl) == DecState(cl.full_content, cl.in_reasoning, cl.emitted)

WithDec(cl, d) ==
    [cl EXCEPT !.full_content = d.full_content, !.in_reasoning = d.in_reasoning,
               !.emitted = d.emitted]

\* the decoder returns Ok(full_content) after the code that follows the loop
DecoderReturn(c, cl) ==
    LET d == EndOfDecoder(Route(cl.provider, cl.web_search), DecOf(cl))
    IN  Return(c, WithDec(cl, d), Ok(d.full_content))

\* where the decoder goes on: the inner loop while the buffer holds a line feed
AfterLines(cl) ==
    IF NewlinePos(cl.buffer) # 0 THEN "lines" ELSE "recv"

\* RecvChunk with buffer = chunk.to_vec() in place of buffer.extend_from_slice:
\* the bytes of an unfinished line are lost when the next chunk comes
RecvChunk_DropPartial(c, chunk, limit) ==
    LET cl == [call[c] EXCEPT !.wire = Append(@, chunk)]
    IN  /\ cl.pc = "recv"
        /\ Len(call[c].wire) < limit
        /\ IF is_stream_cancelled(states, cl.req_id)
           THEN DecoderReturn(c, Seen(cl))
           ELSE IF ExceedsBuffer(cl.buffer, chunk)
           THEN Return(c, cl, Err("Response too large"))
           ELSE LET nx == [cl EXCEPT !.buffer = chunk]
                IN  Goto(c, nx, AfterLines(nx))

\* stream.next() yields a chunk; the server sends at most limit chunks
RecvChunk(c, chunk, limit) ==
    LET cl == [call[c] EXCEPT !.wire = Append(@, chunk)]
    IN  /\ cl.pc = "recv"
        /\ Len(call[c].wire) < limit
        /\ IF is_stream_cancelled(states, cl.req_id)
           THEN DecoderReturn(c, Seen(cl))
           ELSE IF ExceedsBuffer(cl.buffer, chunk)
           THEN Return(c, cl, Err("Response too large"))
           ELSE LET nx == [cl EXCEPT !.buffer = @ \o chunk]
                IN  Goto(c, nx, AfterLines(nx))

\* stream.next() yields a transport error
RecvError(c) ==
    LET cl == call[c]
    IN  /\ cl.pc = "recv"
        /\ IF is_stream_cancelled(states, cl.req_id)
           THEN DecoderReturn(c, Seen(cl))
           ELSE Return(c, cl, Err("Stream error"))

\* stream.next() yields None
RecvEnd(c) ==
    /\ call[c].pc = "recv"
    /\ DecoderReturn(c, call[c])

\* ProcLine with buffer.clear() after the line: the lines that came in the
\* same chunk after the first one are skipped
ProcLine_ClearBuffer(c) ==
    LET cl == call[c]
        pos == NewlinePos(cl.buffer)
        line == SubSeq(cl.buffer, 1, pos)
        cancelled == is_stream_cancelled(states, cl.req_id)
        d == DecodeLine(Route(cl.provider, cl.web_search), DecOf(cl), line, cancelled)
        nx == [WithDec(IF d.obs THEN Seen(cl) ELSE cl, d) EXCEPT !.buffer = <<>>]
    IN  /\ cl.pc = "lines"
        /\ IF d.brk THEN Goto(c, nx, "recv")
           ELSE Goto(c, nx, AfterLines(nx))

\* one turn of the inner loop: the first line is drained and decoded
ProcLine(c) ==
    LET cl == call[c]
        pos == NewlinePos(cl.buffer)
        line == SubSeq(cl.buffer, 1, pos)
        rest == SubSeq(cl.buffer, pos + 1, Len(cl.buffer))
        cancelled == is_stream_cancelled(states, cl.req_id)
        d == DecodeLine(Route(cl.provider, cl.web_search), DecOf(cl), line, cancelled)
        nx == [WithDec(IF d.obs THEN Seen(cl) ELSE cl, d) EXCEPT !.buffer = rest]
    IN  /\ cl.pc = "lines"
        /\ IF d.brk THEN Goto(c, nx, "recv")
           ELSE Goto(c, nx, AfterLines(nx))

\* the registry before any call
EmptyStates == [k \in {} |-> FALSE]

\* no pure function is being evaluated
NoFnCall == [fn |-> "none", done |-> TRUE]

Init ==
    /\ states = EmptyStates
    /\ call = [c \in Calls |-> IdleCall]
    /\ last_op = CallOp
    /\ fncall = NoFnCall

(***************************************************************************)
(* What the callers and the servers may send.                              *)
(***************************************************************************)
\* the line "data: <payload>\n"
Line(payload) == <<DataWord, ColonSpace, payload, NL>>

\* the line "data: <payload>\r\n"
CrLfLine(payload) == <<DataWord, ColonSpace, payload, CR, NL>>

\* as many bytes as the buffer may hold, none of them a line feed
FullCap == Blob(MAX_BUFFER_SIZE)

\* chunks of a Chat Completions stream
ChatChunks ==
    { Line(ChatDelta("a", Null)),
      Line(ChatDelta("b", Null)),
      Line(ChatDelta(Null, "c")),
      Line(DoneLit),
      Line(ChatDelta("a", Null)) \o Line(ChatDelta("b", Null)),
      Line(ChatDelta(Null, "c")) \o Line(DoneLit),
      Line(ChatDelta("a", "c")),
      CrLfLine(ChatDelta(Null, "d")),
      <<EventLine, NL, NL>>,
      Line(BadJson) \o Line(OtherJson) \o Line(ChatDelta("", "")),
      <<DataWord, ColonSpace, ChatDelta("b", Null)>>,
      <<FullCap>>,
      <<Blob(1)>>,
      Line(ChatDelta("a", Null)) \o <<Blob(1)>> }

\* chunks of a Responses API stream
ResponsesChunks ==
    { Line(RespReason("x")),
      Line(RespText("y")) \o Line(DoneLit),
      <<EventLine, NL>> \o Line(RespText("")),
      <<FullCap>>,
      <<Blob(1)>> }

\* chunks of an Anthropic Messages stream
AnthropicChunks ==
    { Line(AnthThink("x")),
      <<EventLine, NL>> \o Line(AnthText("y")),
      Line(DoneLit) \o Line(AnthText("")),
      <<FullCap>>,
      <<Blob(1)>> }

\* the chunks a server of the call's route sends
ChunksOf(cl) ==
    LET rt == Route(cl.provider, cl.web_search)
    IN  IF rt = "responses" THEN ResponsesChunks
        ELSE IF rt = "messages" THEN AnthropicChunks
        ELSE ChatChunks

\* the messages of a caller
CallerMessages ==
    << PlainMsg("system", "S"), PlainMsg("user", "U") >>

\* outcomes of the streaming request
FinalOutcomes == {"ok", "conn_fail", "http_error"}

\* responses of a tool round
JsonResponse(finish_reason, has_calls, calls) ==
    [kind |-> "json", finish_reason |-> finish_reason, has_calls |-> has_calls,
     calls |-> calls]

FailedResponse(kind) ==
    [kind |-> kind, finish_reason |-> Null, has_calls |-> FALSE, calls |-> <<>>]

\* tool calls a model asks for
Call1 == CallVal("t1", "search_documents", "{\"query\":\"alpha\"}")

Call2 == CallVal("t2", "read_document", "{\"document_id\":\"d1\"}")

\* a call whose function.arguments is a JSON object and not a string
CallObjArgs == CallVal("t3", "read_document", Null)

\* a call whose function.arguments is a string that is no JSON
CallBadArgs == CallVal("t4", "read_document", "not json")

ToolResponses ==
    { FailedResponse("conn_fail"), FailedResponse("http_error"),
      FailedResponse("bad_json"),
      JsonResponse("stop", FALSE, <<>>),
      JsonResponse(Null, FALSE, <<>>),
      JsonResponse("tool_calls", FALSE, <<>>),
      JsonResponse("tool_calls", TRUE, <<>>),
      JsonResponse("tool_calls", TRUE, <<Call1>>),
      JsonResponse("tool_calls", TRUE, <<Call1, Call2>>),
      JsonResponse("tool_calls", TRUE, <<CallObjArgs, Call2>>),
      JsonResponse("tool_calls", TRUE, <<CallBadArgs, Call2>>) }

(***************************************************************************)
(* The decoders: one call, every route, and the cancel command.            *)
(***************************************************************************)
NextDecode ==
    \/ \E rid \in {"r1", "r2", Null} : stop_ai_stream(rid)
    \/ \E p \in {"deepseek", "openai", "anthropic"}, ws \in BOOLEAN :
          ChatStream(1, "r1", p, ws, FALSE, CallerMessages)
    \/ FinalResponse(1, "ok")
    \/ \E chunk \in ChunksOf(call[1]) : RecvChunk(1, chunk, MaxChunks)
    \/ RecvError(1)
    \/ RecvEnd(1)
    \/ ProcLine(1)

SpecDecode == Init /\ [][NextDecode]_vars

(***************************************************************************)
(* Concurrent sessions on the default route and the cancel commands.       *)
(* Invocations are numbered in the order they start; a server sends one    *)
(* chunk of one line.                                                      *)
(***************************************************************************)
\* the request id a caller draws for invocation c
FreshId(c) == IF c = 1 THEN "r1" ELSE IF c = 2 THEN "r2" ELSE IF c = 3 THEN "r3" ELSE "r4"

\* the invocation that starts next
CanStart(c) == call[c].pc = "idle" /\ \A d \in Calls : d < c => call[d].pc # "idle"

Next ==
    \/ \E rid \in {"", Null} : stop_ai_stream(rid)
    \/ \E c \in Calls, fresh \in BOOLEAN :
          /\ CanStart(c)
          /\ ChatStream(c, IF fresh THEN FreshId(c) ELSE "", "deepseek", FALSE, FALSE,
                        CallerMessages)
    \/ \E c \in Calls : FinalResponse(c, "ok")
    \/ \E c \in Calls : RecvChunk(c, Line(ChatDelta(Null, "c")), 1)
    \/ \E c \in Calls : RecvEnd(c)
    \/ \E c \in Calls : ProcLine(c)

Spec == Init /\ [][Next]_vars

(***************************************************************************)
(* Two overlapping calls on the default route with every way to exit.      *)
(***************************************************************************)
TwoCalls == {1, 2}

NextExits ==
    \/ \E rid \in {"", "r1", Null} : stop_ai_stream(rid)
    \/ \E c \in TwoCalls, fresh \in BOOLEAN, tools \in BOOLEAN :
          /\ CanStart(c)
          /\ ChatStream(c, IF fresh THEN FreshId(c) ELSE "", "deepseek", FALSE, tools,
                        CallerMessages)
    \/ \E c \in TwoCalls : ToolRound(c)
    \/ \E c \in TwoCalls, resp \in {FailedResponse("conn_fail"), FailedResponse("http_error"),
                                   JsonResponse("stop", FALSE, <<>>)} :
          ToolResponse(c, resp)
    \/ \E c \in TwoCalls, outcome \in FinalOutcomes : FinalResponse(c, outcome)
    \/ \E c \in TwoCalls, chunk \in {Line(ChatDelta("a", "c")), <<FullCap>>} :
          RecvChunk(c, chunk, MaxChunks)
    \/ \E c \in TwoCalls : RecvError(c)
    \/ \E c \in TwoCalls : RecvEnd(c)
    \/ \E c \in TwoCalls : ProcLine(c)

SpecExits == Init /\ [][NextExits]_vars

(***************************************************************************)
(* One call with tool-calling enabled, and the cancel command.  The server *)
(* of the stream sends one chunk of one line.                              *)
(***************************************************************************)
NextTools ==
    \/ \E rid \in {"r1", Null} : stop_ai_stream(rid)
    \/ ChatStream(1, "r1", "deepseek", FALSE, TRUE, CallerMessages)
    \/ ToolRound(1)
    \/ \E resp \in ToolResponses : ToolResponse(1, resp)
    \/ \E outcome \in FinalOutcomes : FinalResponse(1, outcome)
    \/ \E chunk \in {Line(ChatDelta(Null, "c")), Line(ChatDelta("a", "c")),
                     Line(BadJson) \o Line(ChatDelta(Null, "c"))} :
          RecvChunk(1, chunk, 1)
    \/ RecvError(1)
    \/ RecvEnd(1)
    \/ ProcLine(1)

SpecTools == Init /\ [][NextTools]_vars

(***************************************************************************)
(* Properties.                                                             *)
(***************************************************************************)
Terminates(c) == call[c].pc # "done" /\ call'[c].pc = "done"

AllTerminated == \A c \in TwoCalls : call[c].pc = "done"

\* C1: on every exit path the step that ends a call leaves no entry under its
\* request id; an entry disappears only in a step that ends a call of that id,
\* and a call that has ended never acts again, so each call cleans up exactly
\* once; when all calls have ended the registry is empty.
C1_CleanupOnEveryExit ==
    /\ [](AllTerminated => DOMAIN states = {})
    /\ [][ /\ \A c \in TwoCalls : Terminates(c) => call[c].req_id \notin DOMAIN states'
           /\ \A id \in DOMAIN states \ DOMAIN states' :
                 \E c \in TwoCalls : Terminates(c) /\ call[c].req_id = id
           /\ \A c \in TwoCalls : call[c].pc = "done" => call'[c] = call[c] ]_vars

\* C1 witness: two calls that shared a request id have ended, one by the
\* size-limit error and one by the failure of a tool round
C1_Witness ==
    /\ AllTerminated
    /\ call[1].req_id = call[2].req_id
    /\ call[1].result = Err("Response too large")
    /\ call[2].result = Err("Tool call error")

\* the session of invocation c runs under a request id no other call uses
HasFreshId(c) == call[c].req_id = FreshId(c)

Decoding(c) == call[c].pc \in {"recv", "lines"}

\* the step appends and emits nothing, or only the closing tag
AddsAtMostClose(c) ==
    \/ /\ call'[c].full_content = call[c].full_content
       /\ call'[c].emitted = call[c].emitted
    \/ /\ call'[c].full_content = call[c].full_content \o "</think>"
       /\ call'[c].emitted = Append(call[c].emitted, "</think>")

\* C4: stop_ai_stream(None) sets the flag of every registered session and
\* changes nothing else; a session under its own request id whose flag is set
\* keeps it set while it runs, appends and emits no further delta, and ends
\* at its next chunk boundary with Ok of what it had; a session registered later
\* under a fresh id starts with its flag false, the registration leaves the other
\* flags as they are, and its flag is set only by a later stop command.
C4_CancelAll ==
    [][ /\ last_op' = StopOp(Null) =>
              /\ DOMAIN states' = DOMAIN states
              /\ \A id \in DOMAIN states' : states'[id]
              /\ call' = call
        /\ \A c \in Calls :
              HasFreshId(c) /\ InFlight(c) /\ is_stream_cancelled(states, call[c].req_id) =>
                 /\ AddsAtMostClose(c)
                 /\ call'[c].pc # "done" => is_stream_cancelled(states', call[c].req_id)
                 /\ call[c].pc = "recv" /\ call'[c] # call[c] =>
                       /\ call'[c].pc = "done"
                       /\ call'[c].result = Ok(call'[c].full_content)
        /\ \A c \in Calls :
              call[c].pc = "idle" /\ call'[c].pc # "idle" /\ call'[c].req_id = FreshId(c) =>
                 /\ ~is_stream_cancelled(states', FreshId(c))
                 /\ \A id \in DOMAIN states : states'[id] = states[id]
        /\ \A c \in Calls :
              /\ HasFreshId(c) /\ InFlight(c)
              /\ ~is_stream_cancelled(states, call[c].req_id)
              /\ is_stream_cancelled(states', call[c].req_id)
              => last_op'.op = "stop" ]_vars

\* C4 witness: the first two sessions, under distinct ids, have both been cut
\* short by a cancel-all, and the third, registered later under a fresh id, has
\* decoded its delta and is not cancelled
C4_Witness ==
    /\ \A c \in {1, 2} :
          /\ HasFreshId(c)
          /\ call[c].pc = "done"
          /\ call[c].cancel_seen # Null
          /\ call[c].wire # <<>>
          /\ call[c].result = Ok(call[c].cancel_seen)
    /\ HasFreshId(3)
    /\ call[3].pc = "recv"
    /\ call[3].full_content = "c"
    /\ ~is_stream_cancelled(states, "r3")

\* C5: stop_ai_stream(Some(id)) leaves the set of registered ids and the flag of
\* every other id unchanged and changes no call; it sets the flag of id when id
\* is registered and changes nothing when it is not; applied again it changes
\* nothing.
C5_CancelOneFrame ==
    [][ \A id \in {"", "r1", "r2", "r3"} :
           last_op' = StopOp(id) =>
              /\ DOMAIN states' = DOMAIN states
              /\ \A k \in DOMAIN states : k # id => states'[k] = states[k]
              /\ id \in DOMAIN states => states'[id]
              /\ id \notin DOMAIN states => states' = states
              /\ call' = call
              /\ StopOne(states', id) = states' ]_vars

\* C5 witness: a cancel of one id has set that flag while another session is
\* registered and not cancelled
C5_Witness ==
    /\ last_op = StopOp("")
    /\ "" \in DOMAIN states /\ states[""]
    /\ \E k \in DOMAIN states : k # "" /\ ~states[k]

\* C5 witness of the other case: the cancel of an id that has no entry, while
\* another session is registered
C5_WitnessAbsent ==
    /\ last_op = StopOp("")
    /\ "" \notin DOMAIN states
    /\ DOMAIN states # {}

RECURSIVE Flatten(_)
\* the bytes of a sequence of chunks
Flatten(chunks) ==
    IF chunks = <<>> THEN <<>> ELSE Head(chunks) \o Flatten(Tail(chunks))

\* C2 as stated: a call that has seen its cancel flag returns exactly the text
\* it had accumulated when it saw it.
C2_ReturnsTextAtCancel ==
    call[1].pc = "done" /\ call[1].cancel_seen # Null
       => call[1].result = Ok(call[1].cancel_seen)

\* C2 amended: while the cancel flag of a decoding session is set, no step
\* appends or emits anything but the closing tag of an open reasoning section
\* (and only the Chat Completions decoder has one); the next chunk, transport
\* error or end of the stream ends the call with Ok of the accumulated text, so
\* what had been produced is returned and not discarded.
C2_CancelTruncates ==
    [][ Decoding(1) /\ is_stream_cancelled(states, call[1].req_id) =>
           /\ AddsAtMostClose(1)
           /\ call'[1].full_content # call[1].full_content =>
                 /\ call[1].in_reasoning
                 /\ Route(call[1].provider, call[1].web_search) = "chat"
           /\ call[1].pc = "recv" /\ call'[1] # call[1] =>
                 /\ call'[1].pc = "done"
                 /\ call'[1].result = Ok(call'[1].full_content)
                 /\ call'[1].cancel_seen = call[1].full_content
                    \/ call'[1].cancel_seen = call[1].cancel_seen ]_vars

\* C2 witness: a session cancelled inside a reasoning section has returned what
\* it had, followed by the closing tag
C2_Witness ==
    /\ call[1].pc = "done"
    /\ call[1].cancel_seen = "<think>a"
    /\ call[1].result = Ok("<think>a</think>")
    /\ Len(call[1].wire) = 2

\* C6: in each decoder the buffer never holds more than MAX_BUFFER_SIZE bytes;
\* the size-limit error is returned only when the chunks received add up to
\* more than the cap; and a call that was not cancelled and has received, with
\* no line feed among them, chunks of more than the cap in total has ended with
\* the size-limit error.
C6_BufferCap ==
    LET cl == call[1]
        bytes == Flatten(cl.wire)
    IN  /\ ByteLen(cl.buffer) <= MAX_BUFFER_SIZE
        /\ cl.result = Err("Response too large") => ByteLen(bytes) > MAX_BUFFER_SIZE
        /\ /\ NewlinePos(bytes) = 0
           /\ ByteLen(bytes) > MAX_BUFFER_SIZE
           /\ cl.cancel_seen = Null
           => cl.pc = "done" /\ cl.result = Err("Response too large")

\* C6 witness: the Anthropic decoder has ended with the size-limit error on its
\* second chunk, its buffer filled to the cap
C6_Witness ==
    /\ Route(call[1].provider, call[1].web_search) = "messages"
    /\ call[1].result = Err("Response too large")
    /\ ByteLen(call[1].buffer) = MAX_BUFFER_SIZE
    /\ Len(call[1].wire) = 2

RECURSIVE ReasoningThenContent(_, _, _, _)
\* bytes are the lines of non-empty reasoning deltas (at least one when seenR),
\* then of non-empty content deltas, then of [DONE]: the text the claim gives
\* for them, Null when bytes are of another form.  phase is "r" or "c".
ReasoningThenContent(bytes, phase, seenR, acc) ==
    IF Len(bytes) < 4 \/ SubSeq(bytes, 1, 2) # <<DataWord, ColonSpace>> \/ bytes[4] # NL
    THEN Null
    ELSE LET p == bytes[3]
             rest == SubSeq(bytes, 5, Len(bytes))
         IN  IF p = DoneLit
             THEN IF rest = <<>> /\ seenR
                  THEN (IF phase = "r" THEN acc \o "</think>" ELSE acc)
                  ELSE Null
             ELSE IF p.t # "chat" THEN Null
             ELSE IF p.r \notin {Null, ""} /\ p.c = Null /\ phase = "r"
                  THEN ReasoningThenContent(rest, "r", TRUE, acc \o p.r)
             ELSE IF p.c \notin {Null, ""} /\ p.r = Null /\ seenR
                  THEN ReasoningThenContent(rest, "c", TRUE,
                          (IF phase = "r" THEN acc \o "</think>" ELSE acc) \o p.c)
             ELSE Null

\* C10: a Chat Completions call that was not cancelled and has returned after a
\* stream of non-empty reasoning deltas r1..rn, non-empty content deltas c1..cm
\* and [DONE] returns "<think>" r1..rn "</think>" c1..cm; for a, b, c, [DONE] it
\* returns "<think>ab</think>c".
C10_ThinkWrapping ==
    LET cl == call[1]
        bytes == Flatten(cl.wire)
        expected == ReasoningThenContent(bytes, "r", FALSE, "<think>")
    IN  cl.pc = "done" /\ cl.result.ok /\ cl.cancel_seen = Null
           /\ Route(cl.provider, cl.web_search) = "chat"
           => /\ expected # Null => cl.result.text = expected
              /\ bytes = Line(ChatDelta("a", Null)) \o Line(ChatDelta("b", Null))
                         \o Line(ChatDelta(Null, "c")) \o Line(DoneLit)
                 => cl.result.text = "<think>ab</think>c"

\* C10 witness: the stream a, b, c, [DONE] has been decoded to the end
C10_Witness ==
    /\ call[1].pc = "done"
    /\ call[1].cancel_seen = Null
    /\ Route(call[1].provider, call[1].web_search) = "chat"
    /\ Flatten(call[1].wire) = Line(ChatDelta("a", Null)) \o Line(ChatDelta("b", Null))
                                \o Line(ChatDelta(Null, "c")) \o Line(DoneLit)
    /\ call[1].result = Ok("<think>ab</think>c")

\* the positions of the tool-round requests and of the streaming requests
ToolRequestsOf(cl) == {i \in 1..Len(cl.requests) : ~cl.requests[i].stream}

StreamRequestsOf(cl) == {i \in 1..Len(cl.requests) : cl.requests[i].stream}

\* the tool loop of the call has been left without an error
PastLoop(cl) ==
    \/ cl.pc \in {"final_wait", "recv", "lines"}
    \/ cl.pc = "done" /\ cl.result.err \notin {"Tool call failed", "Tool call error",
                                              "Parse tool response failed", "panicked"}

\* the responses that made the loop run its tools
ToolExchanges(cl) ==
    SelectSeq(cl.responses,
              LAMBDA r : r.kind = "json" /\ r.finish_reason = "tool_calls" /\ r.has_calls)

\* C3 as stated: a call that has seen its cancel flag set never returns an error
C3_CancelNeverError ==
    call[1].pc = "done" /\ call[1].cancel_seen # Null => call[1].result.ok

\* C3 where it fails: the flag was seen at the top of the first tool round, the
\* final request was sent all the same, and its failure is the call's result
C3_ErrorAfterCancel ==
    /\ call[1].pc = "done"
    /\ call[1].cancel_seen = ""
    /\ call[1].requests = <<FinalRequest(CallerMessages)>>
    /\ call[1].result = Err("Stream failed")

\* C7: a call with tool-calling enabled issues at most max_rounds = 5 tool-round
\* requests, each with stream false and the tools attached, and at most one
\* streaming request; once the loop is left without an error there is exactly
\* one streaming request, it is the last request, and its messages are the
\* transcript: the caller's messages, then for each tool exchange the assistant
\* message with its calls, each executed call's result after it.
C7_RoundsThenOneFinal ==
    LET cl == call[1]
        n == Len(cl.requests)
        ex == ToolExchanges(cl)
        final == cl.requests[n]
        asst == SelectSeq(final.messages, LAMBDA m : m.role = "assistant")
    IN  /\ Cardinality(ToolRequestsOf(cl)) <= max_rounds
        /\ \A i \in ToolRequestsOf(cl) : cl.requests[i].tools
        /\ Cardinality(StreamRequestsOf(cl)) <= 1
        /\ cl.pc # "idle" /\ PastLoop(cl) =>
              /\ StreamRequestsOf(cl) = {n}
              /\ final = FinalRequest(cl.current_messages)
              /\ SubSeq(final.messages, 1, Len(CallerMessages)) = CallerMessages
              /\ Len(asst) = Len(ex)
              /\ \A k \in 1..Len(ex) :
                    /\ asst[k].tool_calls = ex[k].calls
                    /\ \A j \in 1..Len(ex[k].calls) :
                          ParsesAsToolCall(ex[k].calls[j]) =>
                             \E m \in 1..Len(final.messages) :
                                /\ final.messages[m].role = "tool"
                                /\ final.messages[m].tool_call_id = ex[k].calls[j].id

\* C7 witness: five rounds of tools have run and the streaming request followed
C7_Witness ==
    /\ call[1].pc = "done"
    /\ call[1].result.ok
    /\ Cardinality(ToolRequestsOf(call[1])) = max_rounds
    /\ Len(ToolExchanges(call[1])) = max_rounds
    /\ Len(call[1].requests) = max_rounds + 1

\* C8: when the last response of a tool round has a finish_reason other than
\* tool_calls the loop is over, whatever the round: no further tool-round request
\* is issued and the streaming request is; in the first round there has been
\* exactly one tool-round request, no tool has run, the notice has not been
\* emitted and the transcript is the caller's messages.
C8_DeclineEndsLoop ==
    LET cl == call[1]
        n == Len(cl.responses)
        last == cl.responses[n]
    IN  n > 0 /\ last.kind = "json" /\ last.finish_reason # "tool_calls" =>
           /\ cl.pc \notin {"loop", "tool_wait"}
           /\ Cardinality(ToolRequestsOf(cl)) = n
           /\ cl.requests[Len(cl.requests)] = FinalRequest(cl.current_messages)
           /\ n = 1 =>
                 /\ cl.requests = <<ToolRequest(CallerMessages), FinalRequest(CallerMessages)>>
                 /\ cl.current_messages = CallerMessages
                 /\ \A i \in 1..Len(cl.emitted) : cl.emitted[i] # ToolNotice

\* C8 witness: the model declined in the first round and the streaming request
\* is awaited
C8_Witness ==
    /\ call[1].responses = <<JsonResponse("stop", FALSE, <<>>)>>
    /\ call[1].pc = "final_wait"

\* C8 witness, a later round: the model declined in the third round
C8_WitnessLater ==
    /\ Len(call[1].responses) = 3
    /\ call[1].responses[3] = JsonResponse("stop", FALSE, <<>>)
    /\ call[1].pc = "final_wait"

\* C9 as stated: in the messages of every request, each tool call of an
\* assistant message has a tool message with its id after that message
C9_CallResultPairing ==
    \A i \in 1..Len(call[1].requests) :
       LET ms == call[1].requests[i].messages
       IN  \A a \in 1..Len(ms) :
              \A k \in 1..Len(ms[a].tool_calls) :
                 \E t \in (a + 1)..Len(ms) :
                    /\ ms[t].role = "tool"
                    /\ ms[t].tool_call_id = ms[a].tool_calls[k].id

\* C9 where it fails: a request carries the assistant message of a call whose
\* arguments are an object, and no tool message
C9_UnpairedCall ==
    \E i \in 1..Len(call[1].requests) :
       LET ms == call[1].requests[i].messages
       IN  /\ \E a \in 1..Len(ms) : ms[a].tool_calls = <<CallObjArgs, Call2>>
           /\ \A t \in 1..Len(ms) : ms[t].tool_call_id # CallObjArgs.id

\* what one event of the wire adds in the Responses and Anthropic decoders: a
\* reasoning chunk between tags of its own, a text chunk as it is
WrappedDelta(sym) ==
    IF sym.t \in {"resp_reason", "anth_think"}
    THEN (IF sym.r \in {Null, ""} THEN "" ELSE "<think>" \o sym.r \o "</think>")
    ELSE IF sym.t \in {"resp_text", "anth_text"}
    THEN (IF sym.c = Null THEN "" ELSE sym.c)
    ELSE ""

RECURSIVE WrappedText(_)
\* the deltas of a stream of whole lines, in wire order
WrappedText(bytes) ==
    IF bytes = <<>> THEN ""
    ELSE WrappedDelta(Head(bytes)) \o WrappedText(Tail(bytes))

\* every byte received belongs to a whole line that starts at a line start
WholeLines(bytes) == \A i \in 1..Len(bytes) : bytes[i].t # "blob"

\* C11: a Responses or Anthropic call that was not cancelled and has returned
\* after a stream of whole lines returns, in wire order, "<think>" t "</think>"
\* for each non-empty reasoning chunk t and the text of each text chunk; the
\* Anthropic stream thinking "x", text "y" gives "<think>x</think>y".
C11_IndependentWrapping ==
    LET cl == call[1]
        bytes == Flatten(cl.wire)
    IN  /\ cl.pc = "done" /\ cl.result.ok /\ cl.cancel_seen = Null
        /\ Route(cl.provider, cl.web_search) \in {"responses", "messages"}
        /\ WholeLines(bytes)
        => /\ cl.result.text = WrappedText(bytes)
           /\ ~cl.in_reasoning
           /\ Route(cl.provider, cl.web_search) = "messages"
              /\ SelectSeq(bytes, LAMBDA b : b.t \in {"anth_think", "anth_text"})
                    = <<AnthThink("x"), AnthText("y")>>
              => cl.result.text = "<think>x</think>y"

\* C11 witness: two thinking chunks in a row have each been wrapped
C11_Witness ==
    /\ call[1].pc = "done"
    /\ call[1].cancel_seen = Null
    /\ Route(call[1].provider, call[1].web_search) = "messages"
    /\ call[1].wire = <<Line(AnthThink("x")), Line(AnthThink("x"))>>
    /\ call[1].result = Ok("<think>x</think><think>x</think>")

\* C11 witness of the stream thinking "x", text "y"
C11_WitnessXY ==
    /\ call[1].pc = "done"
    /\ Route(call[1].provider, call[1].web_search) = "messages"
    /\ Flatten(call[1].wire) = Line(AnthThink("x")) \o <<EventLine, NL>> \o Line(AnthText("y"))
    /\ call[1].result = Ok("<think>x</think>y")

\* C11 witness on the Responses route
C11_WitnessResponses ==
    /\ call[1].pc = "done"
    /\ Route(call[1].provider, call[1].web_search) = "responses"
    /\ call[1].wire = <<Line(RespReason("x")), Line(RespText("y")) \o Line(DoneLit)>>
    /\ call[1].result = Ok("<think>x</think>y")

RECURSIVE ConcatAll(_)
\* the in-order concatenation of a sequence of fragments
ConcatAll(frags) ==
    IF frags = <<>> THEN "" ELSE Head(frags) \o ConcatAll(Tail(frags))

\* the fragments of a call's sink that a decoder emitted
DecodedFragments(cl) == SelectSeq(cl.emitted, LAMBDA f : f # ToolNotice)

\* C12 as stated: the text a call returns is the concatenation of all the
\* fragments it emitted
C12_ReturnIsAllEmitted ==
    call[1].pc = "done" /\ call[1].result.ok
       => call[1].result.text = ConcatAll(call[1].emitted)

\* C12 amended: the accumulator is at every moment the concatenation, in order,
\* of the fragments the decoder emitted, and so is the text of a successful
\* return; the sink has received besides, before any decoded fragment, one
\* notice for each round in which tools ran, and no notice is in the text.
C12_ReturnIsDecodedText ==
    LET cl == call[1]
        k == Len(ToolExchanges(cl))
    IN  /\ cl.full_content = ConcatAll(DecodedFragments(cl))
        /\ cl.pc = "done" /\ cl.result.ok => cl.result.text = cl.full_content
        /\ Len(cl.emitted) >= k
        /\ \A i \in 1..Len(cl.emitted) : cl.emitted[i] = ToolNotice <=> i <= k

\* C12 witness: a call that ran tools in one round has returned the decoded
\* text; its sink got the notice first
C12_Witness ==
    /\ call[1].pc = "done"
    /\ call[1].result = Ok("<think>a</think>c")
    /\ call[1].emitted = <<ToolNotice, "<think>", "a", "</think>", "c">>

(***************************************************************************)
(* The provider profile: get_ai_config and AIConfig.                       *)
(***************************************************************************)
\* std::env: the variables get_ai_config reads, Null when one is not set
Env(provider, api_key, base_url) ==
    [AI_PROVIDER |-> provider, AI_API_KEY |-> api_key, AI_BASE_URL |-> base_url]

\* get_ai_config: the arguments of the command, then the environment
get_ai_config(provider, api_key, model, base_url, env) ==
    [provider |-> IF provider # Null THEN provider
                  ELSE IF env.AI_PROVIDER # Null THEN env.AI_PROVIDER
                  ELSE "openai",
     api_key  |-> IF api_key # Null THEN api_key ELSE env.AI_API_KEY,
     base_url |-> IF base_url # Null /\ base_url # "" THEN base_url
                  ELSE env.AI_BASE_URL,
     model    |-> model]

\* get_base_url with the arms of minimax and minimax-code left out
get_base_url_NoMinimax(config) ==
    IF config.base_url # Null THEN config.base_url
    ELSE CASE config.provider = "openai" -> "https://api.openai.com/v1"
           [] config.provider = "anthropic" -> "https://api.anthropic.com/v1"
           [] config.provider = "gemini" ->
                 "https://generativelanguage.googleapis.com/v1beta/openai"
           [] config.provider = "xai" -> "https://api.x.ai/v1"
           [] config.provider = "deepseek" -> "https://api.deepseek.com"
           [] config.provider = "qwen" ->
                 "https://dashscope.aliyuncs.com/compatible-mode/v1"
           [] config.provider = "glm" -> "https://open.bigmodel.cn/api/paas/v4"
           [] config.provider = "glm-code" ->
                 "https://open.bigmodel.cn/api/coding/paas/v4"
           [] config.provider = "kimi" -> "https://api.moonshot.cn/v1"
           [] config.provider = "kimi-code" -> "https://api.kimi.com/coding/v1"
           [] config.provider = "litellm" -> "http://localhost:4000"
           [] OTHER -> "https://api.openai.com/v1"

\* AIConfig::get_base_url
get_base_url(config) ==
    IF config.base_url # Null THEN config.base_url
    ELSE CASE config.provider = "openai" -> "https://api.openai.com/v1"
           [] config.provider = "anthropic" -> "https://api.anthropic.com/v1"
           [] config.provider = "gemini" ->
                 "https://generativelanguage.googleapis.com/v1beta/openai"
           [] config.provider = "xai" -> "https://api.x.ai/v1"
           [] config.provider = "deepseek" -> "https://api.deepseek.com"
           [] config.provider = "qwen" ->
                 "https://dashscope.aliyuncs.com/compatible-mode/v1"
           [] config.provider = "glm" -> "https://open.bigmodel.cn/api/paas/v4"
           [] config.provider = "glm-code" ->
                 "https://open.bigmodel.cn/api/coding/paas/v4"
           [] config.provider \in {"minimax", "minimax-code"} ->
                 "https://api.minimaxi.com/v1"
           [] config.provider = "kimi" -> "https://api.moonshot.cn/v1"
           [] config.provider = "kimi-code" -> "https://api.kimi.com/coding/v1"
           [] config.provider = "litellm" -> "http://localhost:4000"
           [] OTHER -> "https://api.openai.com/v1"

\* AIConfig::get_default_model
get_default_model(config) ==
    IF config.model # Null THEN config.model
    ELSE CASE config.provider = "openai" -> "gpt-4.1"
           [] config.provider = "anthropic" -> "claude-opus-4-6"
           [] config.provider = "gemini" -> "gemini-3-flash-preview"
           [] config.provider = "xai" -> "grok-4-0709"
           [] config.provider = "deepseek" -> "deepseek-chat"
           [] config.provider = "qwen" -> "qwen3-max"
           [] config.provider = "glm" -> "glm-5"
           [] config.provider = "glm-code" -> "GLM-5"
           [] config.provider \in {"minimax", "minimax-code"} -> "MiniMax-M2.5"
           [] config.provider = "kimi" -> "kimi-k2.5"
           [] config.provider = "kimi-code" -> "kimi-for-coding"
           [] config.provider = "litellm" -> "gpt-4.1"
           [] OTHER -> "gpt-4.1"

\* the providers a caller names: those of the table, and strings it has not
TableProviders ==
    {"openai", "anthropic", "gemini", "xai", "deepseek", "qwen", "glm", "glm-code",
     "minimax", "minimax-code", "kimi", "kimi-code", "litellm"}

OtherProviders == {"OpenAI", "ollama", ""}

\* the arguments of a resolution and the environment it runs in
ResolveInputs ==
    [fn : {"resolve"}, done : {FALSE},
     provider : TableProviders \cup OtherProviders \cup {Null},
     base_url : {Null, "", "http://proxy.local/v1"},
     model : {Null, "", "my-model"},
     env : {Env(p, Null, u) : p \in {Null, "deepseek"},
                              u \in {Null, "http://env.local/v1"}},
     config : {Null}, url : {Null}, default_model : {Null}]

\* a command resolves its profile: get_ai_config, then the two getters
ResolveProfile ==
    /\ fncall.fn = "resolve" /\ ~fncall.done
    /\ LET config == get_ai_config(fncall.provider, Null, fncall.model,
                                   fncall.base_url, fncall.env)
       IN  fncall' = [fncall EXCEPT !.done = TRUE, !.config = config,
                                    !.url = get_base_url(config),
                                    !.default_model = get_default_model(config)]
    /\ UNCHANGED <<states, call, last_op>>

InitResolve ==
    /\ states = EmptyStates
    /\ call = [c \in Calls |-> IdleCall]
    /\ last_op = CallOp
    /\ fncall \in ResolveInputs

NextResolve == ResolveProfile

SpecResolve == InitResolve /\ [][NextResolve]_vars

\* the pair the specification documents for a provider of the table
DocumentedPair(p) ==
    CASE p = "openai" -> <<"https://api.openai.com/v1", "gpt-4.1">>
      [] p = "anthropic" -> <<"https://api.anthropic.com/v1", "claude-opus-4-6">>
      [] p = "gemini" -> <<"https://generativelanguage.googleapis.com/v1beta/openai",
                           "gemini-3-flash-preview">>
      [] p = "xai" -> <<"https://api.x.ai/v1", "grok-4-0709">>
      [] p = "deepseek" -> <<"https://api.deepseek.com", "deepseek-chat">>
      [] p = "qwen" -> <<"https://dashscope.aliyuncs.com/compatible-mode/v1", "qwen3-max">>
      [] p = "glm" -> <<"https://open.bigmodel.cn/api/paas/v4", "glm-5">>
      [] p = "glm-code" -> <<"https://open.bigmodel.cn/api/coding/paas/v4", "GLM-5">>
      [] p = "minimax" -> <<"https://api.minimaxi.com/v1", "MiniMax-M2.5">>
      [] p = "minimax-code" -> <<"https://api.minimaxi.com/v1", "MiniMax-M2.5">>
      [] p = "kimi" -> <<"https://api.moonshot.cn/v1", "kimi-k2.5">>
      [] p = "kimi-code" -> <<"https://api.kimi.com/coding/v1", "kimi-for-coding">>
      [] p = "litellm" -> <<"http://localhost:4000", "gpt-4.1">>

\* C13: with no base URL (argument absent or empty, AI_BASE_URL not set) the
\* base URL is the table's for a provider of the table and OpenAI's for any
\* other string; with no model argument the model is likewise the table's or
\* gpt-4.1; a non-empty base_url argument, else AI_BASE_URL, and a model
\* argument are returned instead, whatever the provider.
C13_ProviderTable ==
    fncall.fn = "resolve" /\ fncall.done =>
       LET p == fncall.config.provider
           pair == IF p \in TableProviders THEN DocumentedPair(p)
                   ELSE DocumentedPair("openai")
       IN  /\ p = IF fncall.provider # Null THEN fncall.provider
                  ELSE IF fncall.env.AI_PROVIDER # Null THEN fncall.env.AI_PROVIDER
                  ELSE "openai"
           /\ fncall.base_url \in {Null, ""} /\ fncall.env.AI_BASE_URL = Null
                 => fncall.url = pair[1]
           /\ fncall.model = Null => fncall.default_model = pair[2]
           /\ fncall.base_url \notin {Null, ""} => fncall.url = fncall.base_url
           /\ fncall.base_url \in {Null, ""} /\ fncall.env.AI_BASE_URL # Null
                 => fncall.url = fncall.env.AI_BASE_URL
           /\ fncall.model # Null => fncall.default_model = fncall.model

\* C13 witness: minimax-code with no override has resolved to the pair it
\* shares with minimax
C13_Witness ==
    /\ fncall.fn = "resolve" /\ fncall.done
    /\ fncall.provider = "minimax-code"
    /\ fncall.base_url = Null /\ fncall.model = Null
    /\ fncall.env = Env(Null, Null, Null)
    /\ fncall.url = "https://api.minimaxi.com/v1"
    /\ fncall.default_model = "MiniMax-M2.5"

\* C13 witness: an unrecognized provider has resolved to the OpenAI pair
C13_WitnessUnknown ==
    /\ fncall.fn = "resolve" /\ fncall.done
    /\ fncall.provider = "ollama"
    /\ fncall.base_url = "" /\ fncall.model = Null
    /\ fncall.env.AI_BASE_URL = Null
    /\ fncall.url = "https://api.openai.com/v1"
    /\ fncall.default_model = "gpt-4.1"

(***************************************************************************)
(* One call of execute_tool on a snapshot of documents.                    *)
(***************************************************************************)
\* twelve documents that all hold the query
TwelveDocs ==
    [i \in 1..12 |-> Doc(IF i <= 6 THEN "a" ELSE "b",
                         Rep("x", i), <<"A", "l", "P", "h", "A">> \o Rep("y", i))]

\* the snapshots a caller passes
Snapshots ==
    { CallerDocuments,
      <<>>,
      << Doc(Null, NoStr, NoStr), Doc("d1", NoStr, Alpha), Doc(Null, AlphaProject, NoStr) >>,
      << Doc("d1", <<"T">>, <<"b", "e", "t", "a">>),
         Doc("d2", AlphaProject, <<"b">>),
         Doc("d3", <<"T">>, Rep("x", 60) \o <<" ">> \o Rep("y", 55) \o AlphaProject
                            \o Rep("z", 70)) >>,
      << Doc("d1", <<"T">>, Rep(CJK, 2) \o Alpha) >>,
      << Doc("d1", <<"T">>, Rep(CJK, 20) \o Alpha) >>,
      << Doc("d1", <<"T">>, Alpha \o Rep(CJK, 20)) >>,
      << Doc("d1", <<"T">>, <<IDSP>> \o Rep("x", 55) \o Alpha) >>,
      << Doc("d1", <<"T">>, Rep(IDOT, 60) \o <<"b">>) >>,
      TwelveDocs }

\* the tool calls a model sends
ToolNames == {"search_documents", "read_document", "get_document_stats", "delete_all"}

ArgumentTexts ==
    { "{\"query\":\"alpha\"}", "{\"query\":\"ALPHA\"}", "{\"query\":\"b\"}",
      "{\"query\":\"i\"}", "{\"query\":\"\"}", "{\"query\":5}",
      "{\"document_id\":\"d1\"}", "{\"document_id\":\"zz\"}", "{\"document_id\":\"\"}",
      "{}", "not json" }

ToolInputs ==
    [fn : {"execute_tool"}, done : {FALSE},
     tool_call : {CallVal(id, name, arguments) :
                     id \in {"t1", "t2"}, name \in ToolNames, arguments \in ArgumentTexts},
     documents : Snapshots,
     result : {Null}]

\* the orchestrator runs one tool
RunTool ==
    /\ fncall.fn = "execute_tool" /\ ~fncall.done
    /\ fncall' = [fncall EXCEPT !.done = TRUE,
                                !.result = execute_tool(fncall.tool_call, fncall.documents)]
    /\ UNCHANGED <<states, call, last_op>>

InitToolExec ==
    /\ states = EmptyStates
    /\ call = [c \in Calls |-> IdleCall]
    /\ last_op = CallOp
    /\ fncall \in ToolInputs

NextToolExec == RunTool

SpecToolExec == InitToolExec /\ [][NextToolExec]_vars

\* execute_tool has been run on a call and a snapshot
Ran == fncall.fn = "execute_tool" /\ fncall.done

\* C14 as stated: execute_tool ends normally, with a ToolResult of role tool
\* under the id of the call
C14_NeverThrows ==
    Ran => /\ ~IsPanic(fncall.result)
           /\ fncall.result.tool_call_id = fncall.tool_call.id
           /\ fncall.result.role = "tool"

\* C14 where it fails: search_documents has panicked on a document whose
\* content is twenty three-byte letters and then the query
C14_PanicOnMultibyte ==
    /\ Ran
    /\ fncall.tool_call.name = "search_documents"
    /\ fncall.tool_call.arguments = "{\"query\":\"alpha\"}"
    /\ fncall.documents = << Doc("d1", <<"T">>, Rep(CJK, 20) \o Alpha) >>
    /\ IsPanic(fncall.result)

\* search_documents has been run with a query that is not empty
RanSearch ==
    /\ Ran
    /\ fncall.tool_call.name = "search_documents"
    /\ StrOrEmpty(ParseArgs(fncall.tool_call.arguments).query) # <<>>

\* the title or the content of doc holds the query, whatever the case
MatchesQuery(doc, query) ==
    \/ contains(to_lowercase(StrOrEmpty(doc.title)), to_lowercase(query))
    \/ contains(to_lowercase(StrOrEmpty(doc.content)), to_lowercase(query))

\* the results of a search are the first ten matching documents, in the order
\* of the snapshot, and total is their number
ExactResults(content, documents, query) ==
    LET matching == SelectSeq(documents, LAMBDA doc : MatchesQuery(doc, query))
        n == IF Len(matching) < 10 THEN Len(matching) ELSE 10
    IN  /\ "results" \in DOMAIN content /\ "total" \in DOMAIN content
        /\ Len(content.results) = n
        /\ content.total = n
        /\ \A i \in 1..n :
              /\ content.results[i].id = IdOrEmpty(matching[i].id)
              /\ content.results[i].title = StrOrEmpty(matching[i].title)

\* C15 as stated: a search with a query that is not empty returns exactly the
\* matching documents, at most the first ten, with total their number; "alpha"
\* over three documents of which one holds "Alpha Project" returns that one.
C15_SearchExactMatches ==
    RanSearch =>
       /\ ~IsPanic(fncall.result)
       /\ ExactResults(fncall.result.content, fncall.documents,
                       ParseArgs(fncall.tool_call.arguments).query)
       /\ fncall.documents = CallerDocuments
          /\ fncall.tool_call.arguments = "{\"query\":\"alpha\"}"
          => /\ fncall.result.content.total = 1
             /\ fncall.result.content.results[1].id = "d1"

\* C15 where it fails: the one document of the snapshot holds the query and
\* the search has returned nothing, it has panicked
C15_MatchLostToPanic ==
    /\ RanSearch
    /\ fncall.tool_call.arguments = "{\"query\":\"ALPHA\"}"
    /\ fncall.documents = << Doc("d1", <<"T">>, Alpha \o Rep(CJK, 20)) >>
    /\ MatchesQuery(fncall.documents[1], <<"A", "l", "P", "h", "A">>)
    /\ IsPanic(fncall.result)

\* the searches that return do return exactly the matching documents
SearchExactWhenReturns ==
    RanSearch /\ ~IsPanic(fncall.result) =>
       ExactResults(fncall.result.content, fncall.documents,
                    ParseArgs(fncall.tool_call.arguments).query)

\* the search over twelve matching documents has returned the first ten
SearchCappedAtTen ==
    /\ RanSearch
    /\ fncall.documents = TwelveDocs
    /\ fncall.result.content.total = 10

\* the search for "alpha" over the three documents of which one holds "Alpha
\* Project" has returned that one, with the snippet around the match
SearchAlphaProject ==
    /\ RanSearch
    /\ fncall.documents = CallerDocuments
    /\ fncall.tool_call.arguments = "{\"query\":\"alpha\"}"
    /\ fncall.result.content =
          [results |-> << [id |-> "d1", title |-> <<"P", "l", "a", "n">>,
                           snippet |-> <<"t", "h", "e", " ">> \o AlphaProject] >>,
           total |-> 1]

\* the ids of the documents of a snapshot
SnapshotIds(documents) == {IdOrEmpty(documents[i].id) : i \in 1..Len(documents)}

\* read_document has been run with an id that is empty, absent or unknown
ReadFailure ==
    /\ Ran
    /\ fncall.tool_call.name = "read_document"
    /\ LET doc_id == IdOrEmpty(ParseArgs(fncall.tool_call.arguments).document_id)
       IN  doc_id = "" \/ doc_id \notin SnapshotIds(fncall.documents)

\* search_documents has been run with a query that is empty or absent
SearchFailure ==
    /\ Ran
    /\ fncall.tool_call.name = "search_documents"
    /\ StrOrEmpty(ParseArgs(fncall.tool_call.arguments).query) = <<>>

\* a tool that does not exist has been run
UnknownToolFailure ==
    /\ Ran
    /\ fncall.tool_call.name \notin {"search_documents", "read_document", "get_document_stats"}

\* the result of the tool is a payload with an error field
IsErrorPayload ==
    /\ ~IsPanic(fncall.result)
    /\ "error" \in DOMAIN fncall.result.content

\* C16 as stated: every failure of a tool is an {"error": ...} payload:
\* read_document with an empty, absent or unknown id, search_documents with an
\* empty or absent query, and a tool name that does not exist.
C16_FailuresAreErrorPayloads ==
    ReadFailure \/ SearchFailure \/ UnknownToolFailure => IsErrorPayload

\* C16 where it fails: a search with an empty query has returned an empty list
\* of results and a message, and no error field
C16_EmptyQueryIsNotAnError ==
    /\ SearchFailure
    /\ fncall.tool_call.arguments = "{\"query\":\"\"}"
    /\ fncall.result.content = [results |-> <<>>, message |-> "empty query"]

\* the failures of read_document and the unknown tool are error payloads
ReadAndUnknownAreErrorPayloads ==
    ReadFailure \/ UnknownToolFailure => IsErrorPayload

\* read_document has been asked for an id that no document has, and the
\* payload names it
ReadUnknownId ==
    /\ ReadFailure
    /\ fncall.tool_call.arguments = "{\"document_id\":\"zz\"}"
    /\ fncall.documents = CallerDocuments
    /\ fncall.result.content = [error |-> "document not found", doc_id |-> "zz"]

\* the response that has just arrived for the request of a tool round is a
\* failure to connect or a status that is not 2xx
ToolRequestFailed(a, b) ==
    /\ Len(b.responses) = Len(a.responses) + 1
    /\ b.responses[Len(b.responses)].kind \in {"conn_fail", "http_error"}

\* the requests of cl that differ from all the requests sent before them
SentOnce(cl) ==
    \A i, j \in 1..Len(cl.requests) : i # j => cl.requests[i] # cl.requests[j]

\* C17: no request is retried.  Every request is sent once and gets one
\* response; when the request of a tool round fails to connect or gets a status
\* that is not 2xx, the call returns an error at once: no further round, no
\* final request, no text.
C17_NoRetry ==
    [][LET a == call[1]
           b == call'[1]
       IN  /\ SubSeq(b.requests, 1, Len(a.requests)) = a.requests
           /\ Len(b.requests) <= Len(a.requests) + 1
           /\ SentOnce(b)
           /\ Cardinality(ToolRequestsOf(b)) =
                 Len(b.responses) + (IF b.pc = "tool_wait" THEN 1 ELSE 0)
           /\ Cardinality(StreamRequestsOf(b)) <= 1
           /\ ToolRequestFailed(a, b) =>
                 /\ b.pc = "done"
                 /\ ~b.result.ok
                 /\ b.requests = a.requests
                 /\ b.round = a.round
                 /\ b.emitted = a.emitted
           /\ a.pc = "done" => b = a
      ]_vars

\* the request of the second round has failed after a round that ran a tool:
\* the call has returned the error, two requests were sent, none of them the
\* final one
C17_Witness ==
    LET cl == call[1]
    IN  /\ cl.pc = "done"
        /\ Len(cl.responses) = 2
        /\ cl.responses[1].kind = "json" /\ cl.responses[1].calls = <<Call1>>
        /\ cl.responses[2].kind = "http_error"
        /\ cl.result = Err("Tool call error")
        /\ Len(cl.requests) = 2
        /\ StreamRequestsOf(cl) = {}

(***************************************************************************)
(* The URL and the headers of the requests of chat_stream.                 *)
(***************************************************************************)
\* format!("{}/<endpoint>", config.get_base_url())
Url(config, req) == get_base_url(config) \o "/" \o req.endpoint

ContentType == <<"Content-Type", "application/json">>

\* the headers of the chat route with the key of every provider sent as a
\* bearer token
ChatHeaders_BearerAlways(config) ==
    {ContentType} \cup
    (IF config.api_key = Null THEN {}
     ELSE {<<"Authorization", "Bearer " \o config.api_key>>})

\* the headers of a request to /chat/completions: of a tool round and of the
\* stream
ChatHeaders(config) ==
    {ContentType} \cup
    (IF config.api_key = Null THEN {}
     ELSE IF config.provider = "anthropic" THEN {<<"x-api-key", config.api_key>>}
     ELSE {<<"Authorization", "Bearer " \o config.api_key>>})

\* the headers of stream_openai_responses
ResponsesHeaders(config) ==
    {ContentType} \cup
    (IF config.api_key = Null THEN {}
     ELSE {<<"Authorization", "Bearer " \o config.api_key>>})

\* the headers of stream_anthropic_with_search
AnthropicHeaders(config) ==
    {ContentType, <<"anthropic-version", "2023-06-01">>,
     <<"anthropic-beta", "web-search-2025-03-05">>} \cup
    (IF config.api_key = Null THEN {} ELSE {<<"x-api-key", config.api_key>>})

\* a request as it is posted
Post(url, headers) == [url |-> url, headers |-> headers]

\* the requests chat_stream posts, one of each kind, in the order it posts them
Posts(config, web_search, use_tools, messages) ==
    LET rt == Route(config.provider, web_search)
    IN  IF rt = "responses"
           THEN << Post(Url(config, ResponsesRequest(messages)), ResponsesHeaders(config)) >>
        ELSE IF rt = "messages"
           THEN << Post(Url(config, AnthropicRequest(messages)), AnthropicHeaders(config)) >>
        ELSE (IF use_tools
                 THEN << Post(Url(config, ToolRequest(messages)), ChatHeaders(config)) >>
                 ELSE << >>)
             \o << Post(Url(config, FinalRequest(messages)), ChatHeaders(config)) >>

\* the arguments of a call of chat_stream and the environment it runs in
RouteInputs ==
    [fn : {"route"}, done : {FALSE},
     provider : {Null, "openai", "anthropic", "deepseek", "Anthropic"},
     api_key : {Null, "k1"},
     base_url : {Null, "http://proxy.local/v1"},
     web_search : BOOLEAN, use_tools : BOOLEAN,
     env : {Env(p, k, Null) : p \in {Null, "anthropic"}, k \in {Null, "k2"}},
     config : {Null}, posts : {<<>>}]

\* chat_stream resolves its profile and posts its requests
RouteCall ==
    /\ fncall.fn = "route" /\ ~fncall.done
    /\ LET config == get_ai_config(fncall.provider, fncall.api_key, Null,
                                   fncall.base_url, fncall.env)
       IN  fncall' = [fncall EXCEPT !.done = TRUE, !.config = config,
                         !.posts = Posts(config, fncall.web_search, fncall.use_tools,
                                         CallerMessages)]
    /\ UNCHANGED <<states, call, last_op>>

InitRoute ==
    /\ states = EmptyStates
    /\ call = [c \in Calls |-> IdleCall]
    /\ last_op = CallOp
    /\ fncall \in RouteInputs

NextRoute == RouteCall

SpecRoute == InitRoute /\ [][NextRoute]_vars

\* the names of the headers of a request
HeaderNames(post) == {h[1] : h \in post.headers}

\* C18: the endpoint and the authentication of the requests of chat_stream
\* depend on the provider and on web search only.  openai with web search
\* posts to <base>/responses, anthropic with web search to <base>/messages,
\* everything else to <base>/chat/completions; the key is sent as
\* Authorization: Bearer <key>, but for anthropic as x-api-key and never as
\* Authorization; anthropic-version and anthropic-beta are sent exactly on the
\* /messages route.
C18_EndpointAndAuth ==
    fncall.fn = "route" /\ fncall.done =>
       LET config == fncall.config
           base == get_base_url(config)
           on_messages == config.provider = "anthropic" /\ fncall.web_search
       IN  /\ fncall.posts # <<>>
           /\ \A i \in 1..Len(fncall.posts) :
                 LET post == fncall.posts[i]
                 IN  /\ post.url =
                           IF config.provider = "openai" /\ fncall.web_search
                              THEN base \o "/responses"
                           ELSE IF on_messages THEN base \o "/messages"
                           ELSE base \o "/chat/completions"
                     /\ config.api_key # Null /\ config.provider # "anthropic" =>
                           /\ <<"Authorization", "Bearer " \o config.api_key>>
                                 \in post.headers
                           /\ "x-api-key" \notin HeaderNames(post)
                     /\ config.api_key # Null /\ config.provider = "anthropic" =>
                           /\ <<"x-api-key", config.api_key>> \in post.headers
                           /\ "Authorization" \notin HeaderNames(post)
                     /\ config.api_key = Null =>
                           {"Authorization", "x-api-key"} \cap HeaderNames(post) = {}
                     /\ "anthropic-version" \in HeaderNames(post) <=> on_messages
                     /\ "anthropic-beta" \in HeaderNames(post) <=> on_messages

\* anthropic without web search and with tools has posted the request of a
\* round and the request of the stream to /chat/completions, the key in
\* x-api-key and no anthropic-version header
C18_Witness ==
    /\ fncall.fn = "route" /\ fncall.done
    /\ fncall.provider = "anthropic" /\ ~fncall.web_search /\ fncall.use_tools
    /\ fncall.api_key = "k1" /\ fncall.base_url = Null
    /\ fncall.posts =
          << Post("https://api.anthropic.com/v1/chat/completions",
                  {ContentType, <<"x-api-key", "k1">>}),
             Post("https://api.anthropic.com/v1/chat/completions",
                  {ContentType, <<"x-api-key", "k1">>}) >>

\* anthropic taken from the environment, with web search, has posted to
\* /messages with the key of the environment in x-api-key
C18_WitnessMessages ==
    /\ fncall.fn = "route" /\ fncall.done
    /\ fncall.provider = Null /\ fncall.env.AI_PROVIDER = "anthropic"
    /\ fncall.web_search /\ fncall.api_key = Null /\ fncall.env.AI_API_KEY = "k2"
    /\ fncall.posts =
          << Post("http://proxy.local/v1/messages",
                  {ContentType, <<"anthropic-version", "2023-06-01">>,
                   <<"anthropic-beta", "web-search-2025-03-05">>,
                   <<"x-api-key", "k2">>}) >>

\* openai with web search has posted to /responses with a bearer token
C18_WitnessResponses ==
    /\ fncall.fn = "route" /\ fncall.done
    /\ fncall.config.provider = "openai" /\ fncall.web_search
    /\ fncall.posts =
          << Post("https://api.openai.com/v1/responses",
                  {ContentType, <<"Authorization", "Bearer k1">>}) >>

\* the call is on the route of the Chat Completions decoder
OnChatRoute(cl) == cl.provider # Null /\ Route(cl.provider, cl.web_search) = "chat"

\* the line the next turn of the inner loop drains
NextLine(cl) == SubSeq(cl.buffer, 1, NewlinePos(cl.buffer))

\* the line is data: [DONE]
IsDoneLine(line) == line \in {Line(DoneLit), CrLfLine(DoneLit)}

\* the bytes of the lines the decoder has drained
Drained(cl) ==
    SubSeq(Flatten(cl.wire), 1, Len(Flatten(cl.wire)) - Len(cl.buffer))

\* one of the lines the decoder has drained is data: [DONE]
DoneSeen(cl) ==
    LET bytes == Drained(cl)
    IN  \E i \in 1..Len(bytes) :
           /\ i + 3 <= Len(bytes)
           /\ SubSeq(bytes, i, i + 3) = Line(DoneLit)
           /\ i = 1 \/ bytes[i - 1] = NL

\* C19 as stated: in the Chat Completions decoder [DONE] adds no content, closes
\* an open reasoning section with one </think>, and stops the decoding: the
\* data lines that follow it emit nothing and append nothing.
C19_DoneStopsDecoding ==
    [][LET a == call[1]
           b == call'[1]
       IN  OnChatRoute(a) /\ a.pc = "lines" /\ b.buffer # a.buffer =>
              /\ IsDoneLine(NextLine(a)) =>
                    /\ b.emitted = IF a.in_reasoning THEN Append(a.emitted, "</think>")
                                   ELSE a.emitted
                    /\ b.full_content = IF a.in_reasoning
                                        THEN a.full_content \o "</think>"
                                        ELSE a.full_content
                    /\ ~b.in_reasoning
              /\ DoneSeen(a) =>
                    /\ b.emitted = a.emitted
                    /\ b.full_content = a.full_content
      ]_vars

\* C19 where it fails: the content of a data line that followed [DONE] has been
\* emitted and appended
C19_EmitsAfterDone ==
    LET cl == call[1]
    IN  /\ OnChatRoute(cl)
        /\ cl.wire = << Line(DoneLit), Line(ChatDelta(Null, "c")) >>
        /\ cl.buffer = <<>>
        /\ cl.emitted = <<"c">>
        /\ cl.full_content = "c"

\* [DONE] adds no content and closes an open reasoning section with one
\* </think>
DoneClosesReasoningOnce ==
    [][LET a == call[1]
           b == call'[1]
       IN  OnChatRoute(a) /\ a.pc = "lines" /\ b.buffer # a.buffer
              /\ IsDoneLine(NextLine(a)) =>
              /\ b.emitted = IF a.in_reasoning THEN Append(a.emitted, "</think>")
                             ELSE a.emitted
              /\ b.full_content = IF a.in_reasoning THEN a.full_content \o "</think>"
                                  ELSE a.full_content
              /\ ~b.in_reasoning
      ]_vars

\* [DONE] has closed the reasoning section that was open, and the end of the
\* stream has not closed it again
DoneClosedReasoning ==
    LET cl == call[1]
    IN  /\ OnChatRoute(cl)
        /\ cl.wire = << Line(ChatDelta("a", Null)), Line(DoneLit) >>
        /\ cl.pc = "done"
        /\ cl.emitted = <<"<think>", "a", "</think>">>
        /\ cl.result = Ok("<think>a</think>")

RECURSIVE OpenAfter(_, _)
\* whether a reasoning section is open after the fragments, when open says
\* whether one was open before them
OpenAfter(fragments, open) ==
    IF fragments = <<>> THEN open
    ELSE OpenAfter(Tail(fragments),
                   IF Head(fragments) = "<think>" THEN TRUE
                   ELSE IF Head(fragments) = "</think>" THEN FALSE
                   ELSE open)

\* <think> comes only when no section is open and </think> only when one is
Delimited(fragments) ==
    \A i \in 1..Len(fragments) :
       LET open == OpenAfter(SubSeq(fragments, 1, i - 1), FALSE)
       IN  /\ fragments[i] = "<think>" => ~open
           /\ fragments[i] = "</think>" => open

\* C20 as stated: in the Chat Completions decoder, however the stream ends
\* ([DONE], end of input, cancellation, size-limit error, transport error),
\* <think> is emitted only when no section is open, </think> only when one is
\* open, and every <think> is followed by its </think> before the call ends.
C20_ThinkClosedOnEveryEnd ==
    LET cl == call[1]
    IN  OnChatRoute(cl) =>
           /\ Delimited(cl.emitted)
           /\ cl.pc = "done" => ~OpenAfter(cl.emitted, FALSE)

\* C20, amended: the tags are emitted in turn on every path, and every <think>
\* is followed by its </think> when the call returns its text ([DONE], end of
\* input, cancellation); until then the section that is open is the one the
\* decoder holds open.  A size-limit or transport error returns with the
\* section left open.
C20_ThinkClosedOnReturnedText ==
    LET cl == call[1]
    IN  OnChatRoute(cl) =>
           /\ Delimited(cl.emitted)
           /\ cl.pc = "done" /\ cl.result.ok => ~OpenAfter(cl.emitted, FALSE)
           /\ cl.pc # "done" => OpenAfter(cl.emitted, FALSE) = cl.in_reasoning

\* a cancelled call has closed the reasoning section it had open and has
\* returned its text
C20_Witness ==
    LET cl == call[1]
    IN  /\ OnChatRoute(cl)
        /\ cl.pc = "done"
        /\ cl.cancel_seen = "<think>a"
        /\ cl.emitted = <<"<think>", "a", "</think>">>
        /\ cl.result = Ok("<think>a</think>")

\* a transport error has ended the call with the reasoning section open
C20_UnclosedOnError ==
    LET cl == call[1]
    IN  /\ OnChatRoute(cl)
        /\ cl.pc = "done"
        /\ cl.result = Err("Stream error")
        /\ cl.emitted = <<"<think>", "a">>

\* the size limit has ended the call with the reasoning section open
C20_UnclosedOnSizeLimit ==
    LET cl == call[1]
    IN  /\ OnChatRoute(cl)
        /\ cl.pc = "done"
        /\ cl.result = Err("Response too large")
        /\ cl.emitted = <<"<think>", "a">>

\* two sections have been opened and closed in one stream
C20_WitnessTwoSections ==
    LET cl == call[1]
    IN  /\ OnChatRoute(cl)
        /\ cl.pc = "done"
        /\ cl.emitted = <<"<think>", "a", "</think>", "c", "<think>", "a", "</think>">>

(***************************************************************************)
(* The body of the request of a tool round.                                *)
(***************************************************************************)
\* an entry of a tools array: its type and, for a function, its name
Tool(type, name) == [type |-> type, name |-> name]

\* tools::get_builtin_tool_definitions
get_builtin_tool_definitions ==
    << Tool("function", "search_documents"), Tool("function", "read_document"),
       Tool("function", "get_document_stats") >>

\* inject_web_search_params: the tools field is assigned
inject_web_search_params(request_body, config) ==
    CASE config.provider \in {"glm", "glm-code"} ->
            [request_body EXCEPT !.tools = <<Tool("web_search", Null)>>]
      [] config.provider = "qwen" -> [request_body EXCEPT !.enable_search = TRUE]
      [] config.provider \in {"kimi", "kimi-code"} ->
            [request_body EXCEPT !.tools = <<Tool("builtin_function", "$web_search")>>]
      [] config.provider = "gemini" ->
            [request_body EXCEPT !.tools = <<Tool("google_search", Null)>>]
      [] config.provider = "xai" ->
            [request_body EXCEPT !.tools = <<Tool("web_search", Null)>>]
      [] OTHER -> request_body

\* tool_request of a round; enable_search FALSE is the field left out
tool_request(config, web_search, messages) ==
    LET body == [messages |-> messages, model |-> get_default_model(config),
                 stream |-> FALSE, tools |-> get_builtin_tool_definitions,
                 enable_search |-> FALSE]
    IN  IF web_search THEN inject_web_search_params(body, config) ELSE body

\* the arguments of a call of chat_stream with tools enabled
BodyInputs ==
    [fn : {"tool_request"}, done : {FALSE},
     provider : TableProviders \cup OtherProviders \cup {Null},
     model : {Null, "my-model"},
     web_search : BOOLEAN,
     env : {Env(p, Null, Null) : p \in {Null, "glm"}},
     config : {Null}, built : {FALSE}, body : {Null}]

\* chat_stream with tools enabled, up to the request of its first round; built
\* stays FALSE on the routes that have no tool round
BuildToolRequest ==
    /\ fncall.fn = "tool_request" /\ ~fncall.done
    /\ LET config == get_ai_config(fncall.provider, Null, fncall.model, Null, fncall.env)
       IN  fncall' = [fncall EXCEPT
              !.done = TRUE, !.config = config,
              !.built = Route(config.provider, fncall.web_search) = "chat",
              !.body = IF Route(config.provider, fncall.web_search) = "chat"
                       THEN tool_request(config, fncall.web_search, CallerMessages)
                       ELSE Null]
    /\ UNCHANGED <<states, call, last_op>>

InitBody ==
    /\ states = EmptyStates
    /\ call = [c \in Calls |-> IdleCall]
    /\ last_op = CallOp
    /\ fncall \in BodyInputs

NextBody == BuildToolRequest

SpecBody == InitBody /\ [][NextBody]_vars

\* the request of a tool round has been built
BuiltToolRequest ==
    fncall.fn = "tool_request" /\ fncall.done /\ fncall.built

\* C21 as stated: the request of every tool round carries in its tools field
\* the three built-in definitions, for every provider and with web search on
\* or off.
C21_CatalogInEveryToolRequest ==
    BuiltToolRequest => fncall.body.tools = get_builtin_tool_definitions

\* C21 where it fails: glm with web search has built the request of a tool
\* round whose tools field is the web_search tool alone
C21_CatalogReplaced ==
    /\ BuiltToolRequest
    /\ fncall.config.provider = "glm" /\ fncall.web_search
    /\ fncall.body.tools = <<Tool("web_search", Null)>>

\* the catalog is in the request whenever web search is off, and with web
\* search on for the providers whose injection does not assign tools
CatalogUnlessToolInjected ==
    BuiltToolRequest
    /\ (~fncall.web_search
        \/ fncall.config.provider \notin
              {"glm", "glm-code", "kimi", "kimi-code", "gemini", "xai"})
    => fncall.body.tools = get_builtin_tool_definitions

\* qwen with web search has built a request with the catalog and enable_search
CatalogKeptForQwen ==
    /\ BuiltToolRequest
    /\ fncall.config.provider = "qwen" /\ fncall.web_search
    /\ fncall.body.tools = get_builtin_tool_definitions
    /\ fncall.body.enable_search

\* the step has taken the response of a tool round that asks for tools, and
\* has run them
ToolsRan(a, b) ==
    /\ Len(b.responses) = Len(a.responses) + 1
    /\ LET resp == b.responses[Len(b.responses)]
       IN  resp.kind = "json" /\ resp.finish_reason = "tool_calls" /\ resp.has_calls
    /\ b.result.err # "panicked"

\* the messages the round has pushed after the assistant message
PushedByTools(a, b) ==
    SubSeq(b.current_messages, Len(a.current_messages) + 2, Len(b.current_messages))

\* the value is not a ToolCall: id, function.name or function.arguments is
\* missing or is no string
NotAToolCall(cv) == cv.id = Null \/ cv.name = Null \/ cv.arguments = Null

\* the arguments of the call do not parse: they are no string, or the string
\* is no JSON
ArgumentsUnparsed(cv) == cv.arguments = Null \/ cv.arguments = "not json"

\* C22 as stated: a tool call whose arguments fail to parse is skipped: it is
\* not executed, no tool message is appended for it, no error is reported, the
\* other calls of the round are executed in their order and the loop goes on.
C22_UnparsedCallSkipped ==
    [][LET a == call[1]
           b == call'[1]
       IN  ToolsRan(a, b) =>
              LET calls == b.responses[Len(b.responses)].calls
                  rest == SelectSeq(calls, LAMBDA cv : ~ArgumentsUnparsed(cv))
                  pushed == PushedByTools(a, b)
              IN  /\ Len(pushed) = Len(rest)
                  /\ \A i \in 1..Len(rest) :
                        pushed[i].role = "tool" /\ pushed[i].tool_call_id = rest[i].id
                  /\ b.pc # "done"
                  /\ b.round = a.round + 1
                  /\ b.round < max_rounds => b.pc = "loop"
      ]_vars

\* C22, amended: a value of tool_calls that is not a ToolCall (no id, no name,
\* arguments that are no string) is skipped: no tool message for it, no error,
\* the other calls are executed in their order and the loop goes on.  A call
\* whose arguments are a string that is no JSON is not skipped: it is executed
\* with empty arguments and its result is pushed as a tool message.
C22_NonCallsSkippedBadArgsExecuted ==
    [][LET a == call[1]
           b == call'[1]
       IN  ToolsRan(a, b) =>
              LET calls == b.responses[Len(b.responses)].calls
                  rest == SelectSeq(calls, LAMBDA cv : ~NotAToolCall(cv))
                  pushed == PushedByTools(a, b)
              IN  /\ Len(pushed) = Len(rest)
                  /\ \A i \in 1..Len(rest) :
                        /\ pushed[i].role = "tool"
                        /\ pushed[i].tool_call_id = rest[i].id
                        /\ rest[i].arguments = "not json" /\ rest[i].name = "read_document"
                           => pushed[i].content = [error |-> "empty document id"]
                  /\ b.pc # "done"
                  /\ b.round = a.round + 1
                  /\ b.round < max_rounds => b.pc = "loop"
      ]_vars

\* a round has skipped the value whose arguments are an object and has run the
\* call after it; the loop is at its next round
C22_Witness ==
    LET cl == call[1]
    IN  /\ cl.pc = "loop" /\ cl.round = 1
        /\ cl.responses = << JsonResponse("tool_calls", TRUE, <<CallObjArgs, Call2>>) >>
        /\ Len(cl.current_messages) = Len(CallerMessages) + 2
        /\ cl.current_messages[Len(cl.current_messages)].tool_call_id = "t2"

\* a round has run the call whose arguments are no JSON and has pushed its
\* result before the result of the call after it
C22_BadArgsExecuted ==
    LET cl == call[1]
    IN  /\ cl.pc = "loop" /\ cl.round = 1
        /\ cl.responses = << JsonResponse("tool_calls", TRUE, <<CallBadArgs, Call2>>) >>
        /\ Len(cl.current_messages) = Len(CallerMessages) + 3
        /\ cl.current_messages[Len(CallerMessages) + 2].tool_call_id = "t4"
        /\ cl.current_messages[Len(CallerMessages) + 2].content =
              [error |-> "empty document id"]
        /\ cl.current_messages[Len(CallerMessages) + 3].tool_call_id = "t2"

(***************************************************************************)
(* The messages of a caller on their way into a request.                   *)
(***************************************************************************)
\* the longest list of messages a caller passes
MaxMessages == 3

\* the messages a caller passes: any roles in any order, a content that may be
\* empty
MessageLists ==
    LET one == {PlainMsg(r, c) : r \in {"system", "user", "assistant"},
                                 c \in {"", "s1", "s2"}}
    IN  UNION {[1..n -> one] : n \in 0..MaxMessages}

\* current_messages before the first round: role and content of each message
InitialMessages(messages) ==
    [i \in 1..Len(messages) |-> PlainMsg(messages[i].role, messages[i].content)]

SplitInputs ==
    [fn : {"split"}, done : {FALSE}, messages : MessageLists,
     chat : {<<>>}, anthropic : {Null}]

\* chat_stream builds the messages of its request: current_messages on the
\* chat route, api_messages and system on the /messages route
BuildMessages ==
    /\ fncall.fn = "split" /\ ~fncall.done
    /\ fncall' = [fncall EXCEPT !.done = TRUE,
                                !.chat = InitialMessages(fncall.messages),
                                !.anthropic = AnthropicRequest(fncall.messages)]
    /\ UNCHANGED <<states, call, last_op>>

InitSplit ==
    /\ states = EmptyStates
    /\ call = [c \in Calls |-> IdleCall]
    /\ last_op = CallOp
    /\ fncall \in SplitInputs

NextSplit == BuildMessages

SpecSplit == InitSplit /\ [][NextSplit]_vars

\* the messages have been put into the requests
Split == fncall.fn = "split" /\ fncall.done

\* text is somewhere in the system field
InSystemField(text, field) ==
    \/ text = ""
    \/ /\ field # Null
       /\ \E pre, post \in {"", "s1", "s2", "s1\n", "s2\n", "\ns1", "\ns2"} :
             field = pre \o text \o post

\* C23 as stated: the messages of the caller go into the request in their
\* order, role and content unchanged; on the /messages route the messages
\* that are not system messages keep their order and the content of every
\* system message is in the top-level system field.
C23_NoMessageLost ==
    Split =>
       /\ fncall.chat = fncall.messages
       /\ fncall.anthropic.messages =
             SelectSeq(fncall.messages, LAMBDA m : m.role # "system")
       /\ \A i \in 1..Len(fncall.messages) :
             fncall.messages[i].role = "system" =>
                InSystemField(fncall.messages[i].content, fncall.anthropic.system)

\* C23 where it fails: of two system messages the second alone is in the
\* system field
C23_FirstSystemMessageLost ==
    /\ Split
    /\ fncall.messages =
          << PlainMsg("system", "s1"), PlainMsg("user", "s2"), PlainMsg("system", "s2") >>
    /\ fncall.anthropic.system = "s2"
    /\ fncall.anthropic.messages = << PlainMsg("user", "s2") >>

\* the order of the messages is kept on both routes, and with at most one
\* system message its content is the system field
OrderKeptOneSystem ==
    Split =>
       /\ fncall.chat = fncall.messages
       /\ fncall.anthropic.messages =
             SelectSeq(fncall.messages, LAMBDA m : m.role # "system")
       /\ Len(SelectSeq(fncall.messages, LAMBDA m : m.role = "system")) <= 1 =>
             \A i \in 1..Len(fncall.messages) :
                fncall.messages[i].role = "system" =>
                   InSystemField(fncall.messages[i].content, fncall.anthropic.system)

\* the transcript of a call with tools only grows: the messages of a request
\* start with the messages of the caller and with the messages of every
\* request before it
TranscriptAppendOnly ==
    LET rq == call[1].requests
    IN  \A j \in 1..Len(rq) :
           /\ Len(rq[j].messages) >= Len(CallerMessages)
           /\ \A k \in 1..Len(CallerMessages) :
                 /\ rq[j].messages[k].role = CallerMessages[k].role
                 /\ rq[j].messages[k].content = CallerMessages[k].content
           /\ \A i \in 1..j :
                 /\ Len(rq[i].messages) <= Len(rq[j].messages)
                 /\ \A k \in 1..Len(rq[i].messages) :
                       /\ rq[i].messages[k].role = rq[j].messages[k].role
                       /\ rq[i].messages[k].tool_call_id = rq[j].messages[k].tool_call_id
                       /\ rq[i].messages[k].tool_calls = rq[j].messages[k].tool_calls

\* the step has taken a response of a tool round
TookResponse(a, b) == Len(b.responses) = Len(a.responses) + 1

\* the step has drained a line whose data: payload is no JSON
DrainedBadJson(a, b) ==
    /\ a.pc = "lines" /\ b.buffer # a.buffer
    /\ SubSeq(a.buffer, 1, NewlinePos(a.buffer)) = Line(BadJson)

\* the call has returned an error
Aborted(cl) == cl.pc = "done" /\ ~cl.result.ok

\* C24 as stated: every response that does not parse aborts the call with an
\* error: a response of a tool round that is no JSON or has no choices or no
\* finish_reason, and a data: payload of the stream that is no JSON.
C24_ParseFailuresAbort ==
    [][LET a == call[1]
           b == call'[1]
       IN  /\ TookResponse(a, b) =>
                LET resp == b.responses[Len(b.responses)]
                IN  resp.kind = "bad_json" \/ (resp.kind = "json" /\ resp.finish_reason = Null)
                    => Aborted(b) /\ b.requests = a.requests
           /\ DrainedBadJson(a, b) => Aborted(b)
      ]_vars

\* C24, amended: a response of a tool round that is no JSON aborts the call
\* with an error and nothing more is sent.  A JSON response with no choices or
\* no finish_reason is no error: the loop ends and the final request is sent.
\* A data: payload of the stream that is no JSON is ignored: nothing is emitted
\* for it and the decoder goes on with the next line.
C24_OnlyBadToolJsonAborts ==
    [][LET a == call[1]
           b == call'[1]
       IN  /\ TookResponse(a, b) =>
                LET resp == b.responses[Len(b.responses)]
                IN  /\ resp.kind = "bad_json" =>
                          /\ b.pc = "done"
                          /\ b.result = Err("Parse tool response failed")
                          /\ b.requests = a.requests
                    /\ resp.kind = "json" /\ resp.finish_reason = Null =>
                          /\ b.pc = "final_wait"
                          /\ b.result = NoResult
                          /\ b.requests = Append(a.requests, FinalRequest(a.current_messages))
           /\ DrainedBadJson(a, b) =>
                /\ b.emitted = a.emitted
                /\ b.full_content = a.full_content
                /\ b.result = NoResult
                /\ b.pc = IF NewlinePos(b.buffer) # 0 THEN "lines" ELSE "recv"
      ]_vars

\* a response with no finish_reason has ended the loop, the stream has sent a
\* payload that is no JSON and then content, and the call has returned the
\* content
C24_Witness ==
    LET cl == call[1]
    IN  /\ cl.pc = "done"
        /\ cl.responses = << JsonResponse(Null, FALSE, <<>>) >>
        /\ cl.wire = << Line(BadJson) \o Line(ChatDelta(Null, "c")) >>
        /\ cl.result = Ok("c")

\* a response of a tool round that is no JSON has ended the call with an error
C24_WitnessBadToolJson ==
    LET cl == call[1]
    IN  /\ cl.pc = "done"
        /\ cl.responses = << FailedResponse("bad_json") >>
        /\ cl.result = Err("Parse tool response failed")
        /\ Len(cl.requests) = 1

\* no other call that is in flight has the request id of c
AloneOnId(c) ==
    \A d \in Calls \ {c} : InFlight(d) => call[d].req_id # call[c].req_id

\* C25: the registration of a session creates its entry with the flag false,
\* whatever came before it: a cancel, a cancel of all, an earlier call with the
\* same id that was cancelled and has returned.  A call that shares its id with
\* no call in flight is cancelled only by a cancel issued after its own
\* registration.
C25_RegisterClearsFlag ==
    [][\A c \in Calls :
          /\ call[c].pc = "idle" /\ call'[c].pc # "idle" =>
                /\ call'[c].req_id \in DOMAIN states'
                /\ ~states'[call'[c].req_id]
          /\ InFlight(c) /\ InFlight(c)' /\ AloneOnId(c) /\ AloneOnId(c)'
             /\ ~is_stream_cancelled(states, call[c].req_id)
             /\ is_stream_cancelled(states', call[c].req_id) =>
                /\ last_op' \in {StopOp(call[c].req_id), StopOp(Null)}
                /\ call' = call
          /\ call[c].cancel_seen = Null /\ call'[c].cancel_seen # Null =>
                is_stream_cancelled(states, call[c].req_id)
      ]_vars

\* a call under the empty id was cancelled and has returned; the next call has
\* registered under the same id and its flag is false
C25_Witness ==
    /\ call[1].pc = "done" /\ call[1].req_id = "" /\ call[1].cancel_seen # Null
    /\ call[2].pc = "final_wait" /\ call[2].req_id = ""
    /\ call[3].pc = "idle"
    /\ states = RegisterStream(EmptyStates, "")

\* the events a call has emitted, as the sink gets them: each with the
\* request id of the call
SinkEvents(cl) ==
    [i \in 1..Len(cl.emitted) |-> [request_id |-> cl.req_id, content |-> cl.emitted[i]]]

\* the two calls are different sessions under different request ids
DistinctSessions(c, d) ==
    /\ c # d
    /\ call[c].pc # "idle" /\ call[d].pc # "idle"
    /\ call[c].req_id # call[d].req_id

\* C26, within one session: the events are emitted in the order of the lines
\* on the wire.  What was emitted stays, and the line drained from the head of
\* the buffer adds its fragments at the end.
C26_WireOrder ==
    [][\A c \in TwoCalls :
          LET a == call[c]
              b == call'[c]
          IN  /\ Len(b.emitted) >= Len(a.emitted)
              /\ SubSeq(b.emitted, 1, Len(a.emitted)) = a.emitted
              /\ a.pc = "lines" /\ b.buffer # a.buffer
                 /\ ~is_stream_cancelled(states, a.req_id) =>
                    LET line == SubSeq(a.buffer, 1, NewlinePos(a.buffer))
                        d == ChatLine(DecState("", a.in_reasoning, <<>>), line, FALSE)
                    IN  /\ b.emitted = a.emitted \o d.emitted
                        /\ b.buffer = SubSeq(a.buffer, NewlinePos(a.buffer) + 1,
                                             Len(a.buffer))
                        /\ line = Line(ChatDelta("a", "c")) /\ ~a.in_reasoning =>
                              b.emitted = a.emitted \o <<"<think>", "a", "</think>", "c">>
      ]_vars

\* C26, between sessions under distinct ids: a step of one session, and the
\* cancel of its id, change neither the other session nor its cancel flag; the
\* events of the two sessions carry different request ids.
C26_OtherSessionUntouched ==
    [][\A c, d \in TwoCalls :
          DistinctSessions(c, d) =>
             /\ call'[d] # call[d] \/ last_op' = StopOp(call[d].req_id) =>
                   /\ call'[c] = call[c]
                   /\ is_stream_cancelled(states', call[c].req_id)
                         = is_stream_cancelled(states, call[c].req_id)
                   /\ InFlight(c) => call[c].req_id \in DOMAIN states'
             /\ \A i \in 1..Len(call[c].emitted), j \in 1..Len(call[d].emitted) :
                   SinkEvents(call[c])[i].request_id # SinkEvents(call[d])[j].request_id
      ]_vars

\* C26, the outcome of a session is its own: two sessions under distinct ids
\* that got the same responses and the same chunks and saw their cancellation
\* at the same point have emitted the same fragments and returned the same
\* text, whatever the other one was doing meanwhile.
C26_SameStreamSameOutcome ==
    \A c, d \in TwoCalls :
       /\ DistinctSessions(c, d)
       /\ call[c].pc = "done" /\ call[d].pc = "done"
       /\ call[c].result.ok /\ call[d].result.ok
       /\ call[c].use_tools = call[d].use_tools
       /\ call[c].responses = call[d].responses
       /\ call[c].wire = call[d].wire
       /\ call[c].cancel_seen = call[d].cancel_seen
       => /\ call[c].emitted = call[d].emitted
          /\ call[c].result = call[d].result

\* C26: within one session the events are emitted in the order their lines
\* came on the wire, each with the request id of the session; the events and
\* the returned text of a session under an id of its own depend neither on
\* the stream nor on the cancellation of another session.
C26_SessionsIndependent ==
    /\ C26_WireOrder
    /\ C26_OtherSessionUntouched
    /\ []C26_SameStreamSameOutcome

\* two sessions under distinct ids have ended: one was cancelled after its
\* first chunk and returned it, the other one decoded both of its chunks
C26_Witness ==
    /\ call[1].pc = "done" /\ call[2].pc = "done"
    /\ call[1].req_id = "r1" /\ call[2].req_id = "r2"
    /\ call[1].cancel_seen = "<think>a</think>c"
    /\ call[1].result = Ok("<think>a</think>c")
    /\ call[2].cancel_seen = Null
    /\ call[2].wire = << Line(ChatDelta("a", "c")), Line(ChatDelta("a", "c")) >>
    /\ call[2].result = Ok("<think>a</think>c<think>a</think>c")
    /\ SinkEvents(call[2])[1] = [request_id |-> "r2", content |-> "<think>"]

\* two calls overlap under one request id
SharedId(c, d) ==
    /\ c # d
    /\ InFlight(c) /\ call[d].pc # "idle"
    /\ call[c].req_id = call[d].req_id

\* C27: while a call is in flight its registry entry exists, and a cancel flag
\* that is set for it stays set until the call terminates: neither the
\* registration nor the cleanup of another call removes or resets it, also
\* when the calls share a request id.
C27_EntryAndFlagKept ==
    /\ [](\A c \in Calls : InFlight(c) => call[c].req_id \in DOMAIN states)
    /\ [][\A c \in Calls :
             /\ InFlight(c) /\ call'[c].pc \notin {"idle", "done"}
             /\ is_stream_cancelled(states, call[c].req_id)
             => is_stream_cancelled(states', call[c].req_id)
         ]_vars

\* the first of two calls under the id "" has returned and its guard has
\* removed the entry; the second one is still in flight, without an entry
C27_EntryRemovedByOtherCall ==
    /\ call[1].pc = "done" /\ call[1].req_id = ""
    /\ InFlight(2) /\ call[2].req_id = ""
    /\ "" \notin DOMAIN states

\* the first call under the id "" was cancelled and has not looked at its flag
\* yet; the registration of the second call under "" has put the flag back
C27_FlagResetByOtherCall ==
    /\ InFlight(1) /\ call[1].req_id = "" /\ call[1].cancel_seen = Null
    /\ SharedId(1, 2) /\ call[2].pc = "final_wait"
    /\ "" \in DOMAIN states /\ ~states[""]
    /\ call[3].pc = "idle"

\* where the ids of the calls in flight are distinct, the entry and a set
\* flag of a call are kept until it terminates
EntryAndFlagKeptOwnId ==
    /\ [](\A c \in Calls :
             InFlight(c) /\ (\A d \in Calls : ~SharedId(c, d))
             => call[c].req_id \in DOMAIN states)
    /\ [][\A c \in Calls :
             /\ InFlight(c) /\ call'[c].pc \notin {"idle", "done"}
             /\ \A d \in Calls : call'[d].pc # "idle" /\ d # c
                                    => call'[d].req_id # call[c].req_id
             /\ is_stream_cancelled(states, call[c].req_id)
             => is_stream_cancelled(states', call[c].req_id)
         ]_vars

(***************************************************************************)
(* The same bytes in different chunks: two calls, one after the other, on  *)
(* the same route and never cancelled, the second one getting the bytes of *)
(* the first one.  A server sends pieces of the line                       *)
(* "data: <delta>\r\n" and, on the default route, pieces of a line of one  *)
(* byte followed by as many bytes as fit under the cap.                    *)
(***************************************************************************)
\* the delta a server of the route sends
DeltaOf(rt) ==
    IF rt = "responses" THEN RespText("c")
    ELSE IF rt = "messages" THEN AnthText("c")
    ELSE ChatDelta("a", "c")

\* the line "data: <delta>\r\n" whole, and cut inside the prefix and between
\* the carriage return and the line feed
LinePieces(rt) ==
    { CrLfLine(DeltaOf(rt)),
      <<DataWord>>,
      <<ColonSpace, DeltaOf(rt), CR>>,
      <<NL>> }

\* a byte, a line feed and MAX_BUFFER_SIZE - 1 bytes, cut before and after
\* the line feed
BlobPieces ==
    { <<Blob(1)>>,
      <<NL, Blob(MAX_BUFFER_SIZE - 1)>>,
      <<Blob(MAX_BUFFER_SIZE - 1)>> }

\* the chunks the next stream.next() of the call may yield
FramePieces(cl) ==
    LET rt == Route(cl.provider, cl.web_search)
    IN  IF rt = "chat" THEN LinePieces(rt) \cup BlobPieces ELSE LinePieces(rt)

\* the server of the second call sends the bytes the first call got, cut into
\* chunks in any way
SameServerBytes(c, chunk) ==
    c = 2 => LET got == Flatten(Append(call[2].wire, chunk))
                 sent == Flatten(call[1].wire)
             IN  Len(got) <= Len(sent) /\ SubSeq(sent, 1, Len(got)) = got

NextFrames ==
    \/ \E p \in {"deepseek", "openai", "anthropic"} :
          ChatStream(1, "r1", p, TRUE, FALSE, CallerMessages)
    \/ /\ call[1].pc = "done"
       /\ ChatStream(2, "r2", call[1].provider, TRUE, FALSE, CallerMessages)
    \/ \E c \in TwoCalls : FinalResponse(c, "ok")
    \/ \E c \in TwoCalls : \E chunk \in FramePieces(call[c]) :
          SameServerBytes(c, chunk) /\ RecvChunk(c, chunk, MaxChunks + 1)
    \/ \E c \in TwoCalls : RecvEnd(c)
    \/ \E c \in TwoCalls : ProcLine(c)

SpecFrames == Init /\ [][NextFrames]_vars

\* the two calls have ended and got the same bytes from the server
SameBytes(c, d) ==
    /\ call[c].pc = "done" /\ call[d].pc = "done"
    /\ Flatten(call[c].wire) = Flatten(call[d].wire)

\* every chunk the call got is within the cap by itself
ChunksWithinCap(cl) ==
    \A i \in 1..Len(cl.wire) : ByteLen(cl.wire[i]) <= MAX_BUFFER_SIZE

\* the call was ended by the size check
SizeLimitHit(cl) == cl.result = Err("Response too large")

\* C28 as stated: with every chunk within the cap, the events and the result
\* of a call depend on the bytes only and not on the way they are cut into
\* chunks.
C28_SplitIndependent ==
    \A c, d \in TwoCalls :
       SameBytes(c, d) /\ ChunksWithinCap(call[c]) /\ ChunksWithinCap(call[d])
       => /\ call[c].emitted = call[d].emitted
          /\ call[c].result = call[d].result

\* C28 as the code has it: the events and the result of a call depend on the
\* bytes only and not on the way they are cut into chunks, as long as the
\* size check, which adds the bytes of the unfinished line in the buffer to
\* those of the chunk, ends neither call.
C28_SplitIndependentUnlessSizeLimit ==
    \A c, d \in TwoCalls :
       SameBytes(c, d) /\ ~SizeLimitHit(call[c]) /\ ~SizeLimitHit(call[d])
       => /\ call[c].emitted = call[d].emitted
          /\ call[c].result = call[d].result

\* the first call got the line in one chunk, the second one got it cut inside
\* the prefix and between the carriage return and the line feed: both emitted
\* and returned the same
C28_Witness ==
    /\ call[1].wire = << CrLfLine(ChatDelta("a", "c")) >>
    /\ call[2].wire = << <<DataWord>>, <<ColonSpace, ChatDelta("a", "c"), CR>>, <<NL>> >>
    /\ call[1].pc = "done" /\ call[2].pc = "done"
    /\ call[1].result = Ok("<think>a</think>c")
    /\ call[2].result = call[1].result
    /\ call[2].emitted = call[1].emitted /\ Len(call[1].emitted) = 4

\* the same bytes, every chunk within the cap: cut after the line feed the
\* call returns Ok, cut before the line feed it fails with the size limit
C28_SplitChangesResult ==
    /\ call[1].wire = << <<Blob(1)>>, <<NL>>, <<Blob(MAX_BUFFER_SIZE - 1)>> >>
    /\ call[2].wire = << <<Blob(1)>>, <<NL, Blob(MAX_BUFFER_SIZE - 1)>> >>
    /\ call[1].pc = "done" /\ call[2].pc = "done"
    /\ call[1].result = Ok("")
    /\ SizeLimitHit(call[2])

\* the same on the other two routes
C28_WitnessResponses ==
    /\ SameBytes(1, 2) /\ call[1].wire # call[2].wire
    /\ Route(call[1].provider, call[1].web_search) = "responses"
    /\ call[1].result = Ok("c") /\ call[2].result = Ok("c")

C28_WitnessMessages ==
    /\ SameBytes(1, 2) /\ call[1].wire # call[2].wire
    /\ Route(call[1].provider, call[1].web_search) = "messages"
    /\ call[1].result = Ok("c") /\ call[2].result = Ok("c")

RECURSIVE DecodeLines(_, _, _)
\* every line of bytes decoded once, in order, by a decoder that is not
\* cancelled; the bytes after the last line feed are left alone
DecodeLines(rt, d, bytes) ==
    LET pos == NewlinePos(bytes)
    IN  IF pos = 0 THEN d
        ELSE DecodeLines(rt, DecodeLine(rt, d, SubSeq(bytes, 1, pos), FALSE),
                         SubSeq(bytes, pos + 1, Len(bytes)))

\* the call returned Ok and its events and text are those of the lines of
\* the bytes it received, each decoded once and in order, and of nothing else
EachLineOnce(cl) ==
    LET rt == Route(cl.provider, cl.web_search)
        d == EndOfDecoder(rt, DecodeLines(rt, DecState("", FALSE, <<>>), Flatten(cl.wire)))
    IN  /\ cl.emitted = d.emitted
        /\ cl.result = Ok(d.full_content)

\* C29 as stated: outside the inner loop the buffer of a call holds no line
\* feed, so that no line that was received is left undecoded; a call that
\* returned Ok and never saw a cancellation has decoded each line once, and
\* the bytes after the last line feed gave no event.
C29_NoLineLeftInBuffer ==
    /\ call[1].pc # "lines" => NewlinePos(call[1].buffer) = 0
    /\ call[1].pc = "done" /\ call[1].result.ok /\ call[1].cancel_seen = Null
       => EachLineOnce(call[1])

\* C29 as the code has it: as long as the call has not seen a cancellation,
\* the buffer holds no line feed outside the inner loop; a call that returned
\* Ok and never saw a cancellation has decoded each line once, and the bytes
\* after the last line feed gave no event.
C29_EachLineOnceUnlessCancelled ==
    /\ call[1].pc # "lines" /\ call[1].cancel_seen = Null
       => NewlinePos(call[1].buffer) = 0
    /\ call[1].pc = "done" /\ call[1].result.ok /\ call[1].cancel_seen = Null
       => EachLineOnce(call[1])

\* two lines came in one chunk and then a payload without a line feed: the
\* two lines were decoded, the payload was dropped when the stream ended
C29_Witness ==
    /\ call[1].pc = "done" /\ call[1].cancel_seen = Null
    /\ call[1].wire = << Line(ChatDelta("a", Null)) \o Line(ChatDelta("b", Null)),
                        <<DataWord, ColonSpace, ChatDelta("b", Null)>> >>
    /\ call[1].buffer = <<DataWord, ColonSpace, ChatDelta("b", Null)>>
    /\ call[1].emitted = <<"<think>", "a", "b", "</think>">>
    /\ call[1].result = Ok("<think>ab</think>")

\* the cancellation was seen inside the first of two lines of a chunk: the
\* call has returned Ok and the second line is still in the buffer
C29_LineLeftOnCancel ==
    /\ call[1].pc = "done" /\ call[1].result.ok
    /\ call[1].cancel_seen # Null
    /\ call[1].wire = << Line(ChatDelta("a", Null)) \o Line(ChatDelta("b", Null)) >>
    /\ call[1].buffer = Line(ChatDelta("b", Null))

\* C30: once the cancel flag of the call is set the call sends no request any
\* more, neither that of another tool round nor the final streaming one: a
\* step that sends a request starts with the flag not set.
C30_NoRequestAfterCancel ==
    [][call'[1].requests # call[1].requests
          => ~is_stream_cancelled(states, call[1].req_id)
      ]_vars

\* the flag was seen set at the top of the first tool round: no tool request
\* went out, but the final streaming request did and is awaited
C30_FinalRequestAfterCancel ==
    /\ call[1].pc = "final_wait" /\ call[1].use_tools
    /\ call[1].round = 0 /\ call[1].cancel_seen = ""
    /\ is_stream_cancelled(states, call[1].req_id)
    /\ call[1].requests = << FinalRequest(call[1].current_messages) >>

\* what does hold: a tool round is never started with the flag set
NoToolRequestAfterCancel ==
    [][(/\ call'[1].requests # call[1].requests
        /\ ~call'[1].requests[Len(call'[1].requests)].stream)
       => ~is_stream_cancelled(states, call[1].req_id)
      ]_vars

====
